---- MODULE Spec2Model ----
(***************************************************************************)
(* Model of the operation-breakdown similarity service                     *)
(* (FastAPI-Backend/ob-similarity-service): text normalisation, the        *)
(* fuzzy text metrics the scorer calls, best-match scoring, ranking,       *)
(* top-k selection and the search handlers.                                *)
(*                                                                         *)
(* Strings are sequences of one-character strings.  Scores are Python      *)
(* floats; they are modelled as fixed-point integers in units of 1/SCALE,  *)
(* with one extra value NaN that follows the IEEE-754 rules (every         *)
(* comparison with NaN is false, arithmetic on NaN gives NaN).  The        *)
(* fixed-point value of a score is its exact value; what float64 rounding  *)
(* adds to the three scores of one comparison is held next to it           *)
(* (similarity_rounding).  The ranking orders by the exact values: two     *)
(* totals with different exact values differ by at least 1/SCALE and       *)
(* keep their order as float64.                                            *)
(***************************************************************************)
EXTENDS Integers, Sequences, FiniteSets, TLC

----------------------------------------------------------------------------
(* Bounds                                                                  *)

\* longest query step list drawn
MaxQuerySteps == 2

\* longest query step list drawn for the reordering runs
MaxReorderSteps == 3

\* longest operation list of one corpus record drawn in the scoring runs
MaxRefSteps == 2

\* longest ob_datasource (flat operation rows) of a /search-ds request
MaxRows == 3

\* largest no_of_results of a request
MaxResults == 2

\* longest allocation table drawn for the enrichers
MaxAllocRows == 4

\* longest S3 object key handed to parse_s3_key
MaxKeyLen == 5

\* save-image requests handled one after the other
MaxSaves == 2

----------------------------------------------------------------------------
(* Characters and Python str primitives                                    *)

Alphabet == {" ", "-", "A", "B", "a", "b"}

\* Python's None where a str is expected or optional (a null in the
\* caller's JSON); text.lower() on it raises AttributeError
None == <<"None">>

\* code point order of the characters, as Python compares str
Ord(c) ==
    CASE c = " " -> 32 [] c = "-" -> 45 [] c = "A" -> 65
      [] c = "B" -> 66 [] c = "a" -> 97 [] c = "b" -> 98

LowerChar(c) == CASE c = "A" -> "a" [] c = "B" -> "b" [] OTHER -> c

IsAlnum(c) == c \in {"A", "B", "a", "b"}

\* str.lower()
str_lower(s) == [i \in 1..Len(s) |-> LowerChar(s[i])]

RECURSIVE str_lstrip(_)
str_lstrip(s) ==
    IF s # <<>> /\ Head(s) = " " THEN str_lstrip(Tail(s)) ELSE s

RECURSIVE str_rstrip(_)
str_rstrip(s) ==
    IF s # <<>> /\ s[Len(s)] = " " THEN str_rstrip(SubSeq(s, 1, Len(s) - 1)) ELSE s

\* str.strip()
str_strip(s) == str_rstrip(str_lstrip(s))

\* length of the leading run of non-space characters
RECURSIVE WordLen(_)
WordLen(s) ==
    IF s = <<>> \/ Head(s) = " " THEN 0 ELSE 1 + WordLen(Tail(s))

\* str.split(): the maximal runs of non-whitespace characters, in order
RECURSIVE str_split(_)
str_split(s) ==
    IF s = <<>> THEN <<>>
    ELSE IF Head(s) = " " THEN str_split(Tail(s))
    ELSE <<SubSeq(s, 1, WordLen(s))>> \o str_split(SubSeq(s, WordLen(s) + 1, Len(s)))

\* " ".join(words)
RECURSIVE str_join(_)
str_join(words) ==
    IF words = <<>> THEN <<>>
    ELSE IF Len(words) = 1 THEN words[1]
    ELSE words[1] \o <<" ">> \o str_join(Tail(words))

\* s < t for Python str (lexicographic by code point)
RECURSIVE str_lt(_, _)
str_lt(s, t) ==
    IF t = <<>> THEN FALSE
    ELSE IF s = <<>> THEN TRUE
    ELSE IF Ord(Head(s)) # Ord(Head(t)) THEN Ord(Head(s)) < Ord(Head(t))
    ELSE str_lt(Tail(s), Tail(t))

\* sorted(tokens) for a collection of distinct strings
RECURSIVE sorted_tokens(_)
sorted_tokens(S) ==
    IF S = {} THEN <<>>
    ELSE LET m == CHOOSE x \in S : \A y \in S \ {x} : str_lt(x, y)
         IN  <<m>> \o sorted_tokens(S \ {m})

\* sorted(list of strings): stable, duplicates kept
RECURSIVE insert_token(_, _)
insert_token(w, ws) ==
    IF ws = <<>> THEN <<w>>
    ELSE IF str_lt(w, Head(ws)) THEN <<w>> \o ws
    ELSE <<Head(ws)>> \o insert_token(w, Tail(ws))

RECURSIVE sorted_list(_)
sorted_list(ws) ==
    IF ws = <<>> THEN <<>>
    ELSE insert_token(ws[Len(ws)], sorted_list(SubSeq(ws, 1, Len(ws) - 1)))

SeqToSet(s) == {s[i] : i \in 1..Len(s)}

Max2(a, b) == IF a >= b THEN a ELSE b
Min2(a, b) == IF a <= b THEN a ELSE b

\* int(round(num / den)) with Python 3 rounding (ties go to the even integer)
intr(num, den) ==
    LET q == num \div den
        r == num % den
    IN  IF 2 * r < den THEN q
        ELSE IF 2 * r > den THEN q + 1
        ELSE IF q % 2 = 0 THEN q ELSE q + 1

----------------------------------------------------------------------------
(* fuzzywuzzy.fuzz / fuzzywuzzy.utils, as called by fuzz_similarity.       *)
(* The service imports python-Levenshtein, so the library's                *)
(* SequenceMatcher is StringMatcher and ratio() is                         *)
(* 2 * LCS / (len1 + len2).                                                *)

\* length of the longest common subsequence
RECURSIVE LCS(_, _)
LCS(s, t) ==
    IF s = <<>> \/ t = <<>> THEN 0
    ELSE IF Head(s) = Head(t) THEN 1 + LCS(Tail(s), Tail(t))
    ELSE Max2(LCS(Tail(s), t), LCS(s, Tail(t)))

\* utils.intr(100 * SequenceMatcher(None, s1, s2).ratio())
matcher_ratio(s1, s2) ==
    IF Len(s1) + Len(s2) = 0 THEN 100
    ELSE intr(200 * LCS(s1, s2), Len(s1) + Len(s2))

\* fuzz.ratio with its decorators check_for_equivalence, check_empty_string
fuzz_ratio(s1, s2) ==
    IF s1 = s2 THEN 100
    ELSE IF Len(s1) = 0 \/ Len(s2) = 0 THEN 0
    ELSE matcher_ratio(s1, s2)

\* fuzz.partial_ratio: the shorter string against the windows of the longer
\* one that a matching block aligns it with (long_start = max(j - i, 0),
\* the slice is cut at the end of the longer string); the terminal block
\* gives the offset len(longer) - len(shorter).
fuzz_partial_ratio(s1, s2) ==
    IF s1 = s2 THEN 100
    ELSE IF Len(s1) = 0 \/ Len(s2) = 0 THEN 0
    ELSE LET shorter == IF Len(s1) <= Len(s2) THEN s1 ELSE s2
             longer  == IF Len(s1) <= Len(s2) THEN s2 ELSE s1
             starts  == {Max2(j - i, 0) : <<i, j>> \in
                            {p \in (1..Len(shorter)) \X (1..Len(longer)) :
                                shorter[p[1]] = longer[p[2]]}}
                        \cup {Len(longer) - Len(shorter)}
             substr(d) == SubSeq(longer, d + 1, Min2(d + Len(shorter), Len(longer)))
             scores  == {matcher_ratio(shorter, substr(d)) : d \in starts}
         IN  CHOOSE m \in scores : \A x \in scores : m >= x

\* utils.full_process(s, force_ascii=True): every character that is not a
\* letter or a digit becomes a space, then lower(), then strip()
full_process(s) ==
    str_strip(str_lower([i \in 1..Len(s) |-> IF IsAlnum(s[i]) THEN s[i] ELSE " "]))

\* fuzz._process_and_sort
process_and_sort(s, do_full_process) ==
    LET ts == IF do_full_process THEN full_process(s) ELSE s
    IN  str_strip(str_join(sorted_list(str_split(ts))))

\* fuzz._token_sort
token_sort(s1, s2, partial, do_full_process) ==
    LET sorted1 == process_and_sort(s1, do_full_process)
        sorted2 == process_and_sort(s2, do_full_process)
    IN  IF partial THEN fuzz_partial_ratio(sorted1, sorted2)
        ELSE fuzz_ratio(sorted1, sorted2)

\* fuzz.token_sort_ratio(s1, s2)
fuzz_token_sort_ratio(s1, s2) == token_sort(s1, s2, FALSE, TRUE)

\* fuzz._token_set: 0 when either processed string is empty
\* (utils.validate_string)
token_set(s1, s2, partial, do_full_process) ==
    IF ~do_full_process /\ s1 = s2 THEN 100
    ELSE
    LET p1 == IF do_full_process THEN full_process(s1) ELSE s1
        p2 == IF do_full_process THEN full_process(s2) ELSE s2
    IN  IF Len(p1) = 0 \/ Len(p2) = 0 THEN 0
        ELSE
        LET tokens1 == SeqToSet(str_split(p1))
            tokens2 == SeqToSet(str_split(p2))
            sorted_sect == str_join(sorted_tokens(tokens1 \cap tokens2))
            sorted_1to2 == str_join(sorted_tokens(tokens1 \ tokens2))
            sorted_2to1 == str_join(sorted_tokens(tokens2 \ tokens1))
            combined_1to2 == str_strip(sorted_sect \o <<" ">> \o sorted_1to2)
            combined_2to1 == str_strip(sorted_sect \o <<" ">> \o sorted_2to1)
            sect == str_strip(sorted_sect)
            rf(a, b) == IF partial THEN fuzz_partial_ratio(a, b) ELSE fuzz_ratio(a, b)
        IN  Max2(rf(sect, combined_1to2),
                 Max2(rf(sect, combined_2to1), rf(combined_1to2, combined_2to1)))

\* fuzz.token_set_ratio(s1, s2)
fuzz_token_set_ratio(s1, s2) == token_set(s1, s2, FALSE, TRUE)

\* fuzz.WRatio(s1, s2): unbase_scale .95, partial_scale .90 (.6 when the
\* lengths differ by more than a factor 8); the candidates are kept in
\* units of 1/10000 and the best one is rounded
fuzz_WRatio(s1, s2) ==
    LET p1 == full_process(s1)
        p2 == full_process(s2)
    IN  IF Len(p1) = 0 \/ Len(p2) = 0 THEN 0
        ELSE
        LET base == fuzz_ratio(p1, p2)
            lmax == Max2(Len(p1), Len(p2))
            lmin == Min2(Len(p1), Len(p2))
            try_partial == ~(2 * lmax < 3 * lmin)
            partial_scale == IF lmax > 8 * lmin THEN 60 ELSE 90
        IN  IF try_partial
            THEN LET partial == fuzz_partial_ratio(p1, p2) * partial_scale * 100
                     ptsor == token_sort(p1, p2, TRUE, FALSE) * 95 * partial_scale
                     ptser == token_set(p1, p2, TRUE, FALSE) * 95 * partial_scale
                 IN  intr(Max2(base * 10000, Max2(partial, Max2(ptsor, ptser))), 10000)
            ELSE LET tsor == token_sort(p1, p2, FALSE, FALSE) * 9500
                     tser == token_set(p1, p2, FALSE, FALSE) * 9500
                 IN  intr(Max2(base * 10000, Max2(tsor, tser)), 10000)

----------------------------------------------------------------------------
(* Floats                                                                  *)

RECURSIVE Fact(_)
Fact(n) == IF n <= 1 THEN 1 ELSE n * Fact(n - 1)

\* a score x is held as the integer x * SCALE; the unit divides every mean
\* of five integers, every mean over at most MaxQuerySteps (in the
\* reordering runs MaxReorderSteps) terms and the halving that follows
SCALE == 10 * Fact(Max2(MaxQuerySteps, MaxReorderSteps))

\* float('nan'), the result of np.mean([])
NaN == 0 - 1

IsNaN(x) == x = NaN

\* IEEE-754 comparisons: false as soon as one side is NaN
FGe(a, b) == ~IsNaN(a) /\ ~IsNaN(b) /\ a >= b
FLt(a, b) == ~IsNaN(a) /\ ~IsNaN(b) /\ a < b
FEq(a, b) == ~IsNaN(a) /\ ~IsNaN(b) /\ a = b

FAdd(a, b) == IF IsNaN(a) \/ IsNaN(b) THEN NaN ELSE a + b
FHalf(a) == IF IsNaN(a) THEN NaN ELSE a \div 2

RECURSIVE SumSeq(_)
SumSeq(xs) == IF xs = <<>> THEN 0 ELSE Head(xs) + SumSeq(Tail(xs))

\* variant: the scores are added up and not averaged
np_mean_sum(xs) == IF xs = <<>> THEN NaN ELSE SumSeq(xs)

\* np.mean(xs): nan (and a RuntimeWarning, no exception) for an empty list
np_mean(xs) == IF xs = <<>> THEN NaN ELSE SumSeq(xs) \div Len(xs)

\* max(xs) of a non-empty list of numbers
list_max(xs) == CHOOSE m \in SeqToSet(xs) : \A x \in SeqToSet(xs) : m >= x

----------------------------------------------------------------------------
(* float64 rounding                                                        *)

\* A float64 x the scorer computes is held as the value N it would have in
\* exact arithmetic (units of 1/SCALE, as above) and its rounding E, the
\* distance x - N/SCALE in units of 2^-RoundingBits / SCALE.  Every float64
\* between 2^-8 and 2^9 is a multiple of 2^-RoundingBits, so E is an integer.
RoundingBits == 60

\* 2^k modulo m
RECURSIVE pow2mod(_, _)
pow2mod(k, m) == IF k = 0 THEN 1 % m ELSE (2 * pow2mod(k - 1, m)) % m

\* 2^j <= N/SCALE + E, E being smaller than any 1/SCALE
at_least_pow2(N, E, j) ==
    IF j >= 0
    THEN N > SCALE * 2^j \/ (N = SCALE * 2^j /\ E >= 0)
    ELSE N * 2^(0 - j) > SCALE \/ (N * 2^(0 - j) = SCALE /\ E >= 0)

\* the binary exponent of a positive value below 2^(j+1)
RECURSIVE float_exponent(_, _, _)
float_exponent(N, E, j) ==
    IF at_least_pow2(N, E, j) THEN j ELSE float_exponent(N, E, j - 1)

\* round-half-to-even onto the float64 grid of spacing G: X is the offset of
\* the value from a grid point of parity q, f the offset from the grid point
\* below the value; the result is the rounding of the float64 chosen
nearest_even(E, G, X, f, q) ==
    IF 2 * f < G THEN E - f
    ELSE IF 2 * f > G THEN E - f + G
    ELSE IF (q + (X - f) \div G) % 2 = 0 THEN E - f ELSE E - f + G

\* the value N/SCALE + (E/n) in a binade whose grid is 2^-k, h = 2^(RoundingBits-k)
round_in_binade(N, E, n, k, h) ==
    nearest_even(E, n * SCALE * h,
                 n * h * (((N % SCALE) * pow2mod(k, SCALE)) % SCALE) + E,
                 (n * h * (((N % SCALE) * pow2mod(k, SCALE)) % SCALE) + E) % (n * SCALE * h),
                 (((N % (2 * SCALE)) * pow2mod(k, 2 * SCALE)) % (2 * SCALE)) \div SCALE)
        \div n

\* the rounding of the float64 nearest to the value whose exact part is N and
\* whose distance from N is E/n: the result of one float64 operation
\* (a sum with n = 1, a division by n of a sum that was n*N with rounding E)
float64_rounding(N, E, n) ==
    IF IsNaN(N) \/ (N = 0 /\ E = 0) THEN 0
    ELSE round_in_binade(N, E, n, 52 - float_exponent(N, E, 9),
                         2^(RoundingBits - (52 - float_exponent(N, E, 9))))

\* exact sum of the first n elements
RECURSIVE sum_upto(_, _)
sum_upto(xs, n) == IF n = 0 THEN 0 ELSE sum_upto(xs, n - 1) + xs[n]

\* rounding of np.add.reduce over the first n elements, added one after the
\* other from the left; an element x is the float64 nearest to x/SCALE
RECURSIVE add_reduce_rounding(_, _)
add_reduce_rounding(xs, n) ==
    IF n = 0 THEN 0
    ELSE float64_rounding(sum_upto(xs, n),
                          add_reduce_rounding(xs, n - 1) + float64_rounding(xs[n], 0, 1),
                          1)

\* rounding of np.mean(xs): the sum, then one division by the length
np_mean_rounding(xs) ==
    IF xs = <<>> THEN 0
    ELSE float64_rounding(SumSeq(xs) \div Len(xs), add_reduce_rounding(xs, Len(xs)), Len(xs))

----------------------------------------------------------------------------
(* app/utils/text_compare.py                                               *)

preprocess_text(text) == str_join(str_split(str_strip(str_lower(text))))

\* mean of the five fuzz metrics, in units of 1/SCALE
fuzz_similarity(str1, str2) ==
    np_mean(<<fuzz_ratio(str1, str2) * SCALE,
              fuzz_partial_ratio(str1, str2) * SCALE,
              fuzz_token_sort_ratio(str1, str2) * SCALE,
              fuzz_token_set_ratio(str1, str2) * SCALE,
              fuzz_WRatio(str1, str2) * SCALE>>)

get_similarity_score(text1, text2) ==
    fuzz_similarity(preprocess_text(text1), preprocess_text(text2))

get_absolute_similarity_score(text1, text2) ==
    IF preprocess_text(text1) = preprocess_text(text2) THEN 100 * SCALE ELSE 0

\* the dict compare_ob_v2 returns, from the two averages
similarity_scores_dict(avg_operation_name_similarity_score, avg_machine_name_similarity_score) ==
    [exc |-> "none",
     operation_similarity_score |-> avg_operation_name_similarity_score,
     machine_similarity_score |-> avg_machine_name_similarity_score,
     total_similarity_score |->
        FHalf(FAdd(avg_operation_name_similarity_score,
                   avg_machine_name_similarity_score))]

\* some operation or machine name of the list is None
has_none_name(pairs) ==
    \E i \in 1..Len(pairs) : pairs[i][1] = None \/ pairs[i][2] = None

\* preprocess_text raised on the first pair that holds a None
RaisedAttributeError ==
    [exc |-> "AttributeError",
     operation_similarity_score |-> NaN,
     machine_similarity_score |-> NaN,
     total_similarity_score |-> NaN]

\* the pairs are compared and some name is None
raises_on_none(operation_machine_list, database_records) ==
    /\ operation_machine_list # <<>>
    /\ database_records # <<>>
    /\ (has_none_name(operation_machine_list) \/ has_none_name(database_records))

\* max(operation_name_scores) raised: the call ends with ValueError
RaisedValueError ==
    [exc |-> "ValueError",
     operation_similarity_score |-> NaN,
     machine_similarity_score |-> NaN,
     total_similarity_score |-> NaN]

\* the reference step that best matches the operation name of query step i
best_reference(operation_machine_list, database_records, i) ==
    CHOOSE j \in 1..Len(database_records) :
        \A k \in 1..Len(database_records) :
            get_similarity_score(operation_machine_list[i][1], database_records[j][1])
                >= get_similarity_score(operation_machine_list[i][1], database_records[k][1])

\* variant: the machine score of a query step is read at the reference step
\* that best matches its operation name (joint, not independent, maximum)
compare_ob_v2_joint(operation_machine_list, database_records) ==
    IF raises_on_none(operation_machine_list, database_records)
    THEN RaisedAttributeError
    ELSE IF operation_machine_list # <<>> /\ database_records = <<>>
    THEN RaisedValueError
    ELSE similarity_scores_dict(
            np_mean([i \in 1..Len(operation_machine_list) |->
                list_max([j \in 1..Len(database_records) |->
                    get_similarity_score(operation_machine_list[i][1],
                                         database_records[j][1])])]),
            np_mean([i \in 1..Len(operation_machine_list) |->
                get_absolute_similarity_score(
                    operation_machine_list[i][2],
                    database_records[best_reference(operation_machine_list,
                                                    database_records, i)][2])]))

\* variant: a query step is compared with the reference step at its own
\* position only (the positional comparison of compare_ob), over the steps
\* both lists have
compare_ob_v2_positional(operation_machine_list, database_records) ==
    IF raises_on_none(operation_machine_list, database_records)
    THEN RaisedAttributeError
    ELSE IF operation_machine_list # <<>> /\ database_records = <<>>
    THEN RaisedValueError
    ELSE similarity_scores_dict(
            np_mean([i \in 1..Len(operation_machine_list) |->
                IF i <= Len(database_records)
                THEN get_similarity_score(operation_machine_list[i][1],
                                          database_records[i][1])
                ELSE 0]),
            np_mean([i \in 1..Len(operation_machine_list) |->
                IF i <= Len(database_records)
                THEN get_absolute_similarity_score(operation_machine_list[i][2],
                                                   database_records[i][2])
                ELSE 0]))

\* compare_ob_v2: for every query step the scores against all reference
\* steps, max() of the text scores and max() of the machine scores, then
\* the mean of each list of maxima.  max() of the empty score list of a
\* step raises ValueError when the reference is empty; an empty query skips
\* the loop and averages nothing; a name that is None raises AttributeError
\* in the first comparison.
compare_ob_v2(operation_machine_list, database_records) ==
    IF raises_on_none(operation_machine_list, database_records)
    THEN RaisedAttributeError
    ELSE IF operation_machine_list # <<>> /\ database_records = <<>>
    THEN RaisedValueError
    ELSE similarity_scores_dict(
            np_mean([i \in 1..Len(operation_machine_list) |->
                list_max([j \in 1..Len(database_records) |->
                    get_similarity_score(operation_machine_list[i][1],
                                         database_records[j][1])])]),
            np_mean([i \in 1..Len(operation_machine_list) |->
                list_max([j \in 1..Len(database_records) |->
                    get_absolute_similarity_score(operation_machine_list[i][2],
                                                  database_records[j][2])])]))

\* operation_name_similarity_scores: per query step the max() of its text
\* scores against all reference steps
operation_name_similarity_scores(operation_machine_list, database_records) ==
    [i \in 1..Len(operation_machine_list) |->
        list_max([j \in 1..Len(database_records) |->
            get_similarity_score(operation_machine_list[i][1], database_records[j][1])])]

\* machine_name_similarity_scores: per query step the max() of its machine
\* scores against all reference steps
machine_name_similarity_scores(operation_machine_list, database_records) ==
    [i \in 1..Len(operation_machine_list) |->
        list_max([j \in 1..Len(database_records) |->
            get_absolute_similarity_score(operation_machine_list[i][2],
                                          database_records[j][2])])]

\* the roundings of the two means and of their half-sum
scores_rounding(avg_operation_rounding, avg_machine_rounding, avg_operation, avg_machine) ==
    [operation_similarity_score |-> avg_operation_rounding,
     machine_similarity_score |-> avg_machine_rounding,
     total_similarity_score |->
        float64_rounding(FAdd(avg_operation, avg_machine),
                         avg_operation_rounding + avg_machine_rounding, 1) \div 2]

NoRounding ==
    [operation_similarity_score |-> 0,
     machine_similarity_score |-> 0,
     total_similarity_score |-> 0]

\* the roundings of the three float64 of the dict, from the two lists of
\* maxima
rounding_of_maxima(operation_name_similarity_score, machine_name_similarity_score) ==
    scores_rounding(np_mean_rounding(operation_name_similarity_score),
                    np_mean_rounding(machine_name_similarity_score),
                    np_mean(operation_name_similarity_score),
                    np_mean(machine_name_similarity_score))

\* the roundings of the three float64 compare_ob_v2 returns: the dict of
\* compare_ob_v2 holds the exact values, this one what float64 adds to
\* them; nothing when the call raises or averages nothing
compare_ob_v2_rounding(operation_machine_list, database_records) ==
    IF raises_on_none(operation_machine_list, database_records)
       \/ operation_machine_list = <<>>
       \/ database_records = <<>>
    THEN NoRounding
    ELSE rounding_of_maxima(
            operation_name_similarity_scores(operation_machine_list, database_records),
            machine_name_similarity_scores(operation_machine_list, database_records))

----------------------------------------------------------------------------
(* app/utils/data_transform.py                                             *)

\* sorted(xs, key=...) is stable: stable_order(keys) is the order in which it
\* takes the positions of xs, keys[i] being the key of xs[i]
RECURSIVE insert_index(_, _, _)
insert_index(i, order, keys) ==
    IF order = <<>> THEN <<i>>
    ELSE IF keys[i] < keys[Head(order)] THEN <<i>> \o order
    ELSE <<Head(order)>> \o insert_index(i, Tail(order), keys)

RECURSIVE stable_order_upto(_, _)
stable_order_upto(n, keys) ==
    IF n = 0 THEN <<>>
    ELSE insert_index(n, stable_order_upto(n - 1, keys), keys)

stable_order(keys) == stable_order_upto(Len(keys), keys)

sorted_by_key(xs, keys) ==
    LET order == stable_order(keys) IN [i \in 1..Len(xs) |-> xs[order[i]]]

sort_ob_data(operation_data) ==
    sorted_by_key(operation_data,
                  [i \in 1..Len(operation_data) |-> operation_data[i].sequence_number])

get_operation_machine_list(operation_data) ==
    LET sorted_operation_data == sort_ob_data(operation_data)
    IN  [i \in 1..Len(sorted_operation_data) |->
            <<sorted_operation_data[i].operation_name,
              sorted_operation_data[i].machine_name>>]

\* variant: the triples are taken in the order of the rows, unsorted
get_operation_machine_list_db_unsorted(operation_data) ==
    [i \in 1..Len(operation_data) |-> <<operation_data[i][1], operation_data[i][2]>>]

get_operation_machine_list_db(operation_data) ==
    LET sorted_data == sorted_by_key(operation_data,
                          [i \in 1..Len(operation_data) |-> operation_data[i][3]])
    IN  [i \in 1..Len(sorted_data) |-> <<sorted_data[i][1], sorted_data[i][2]>>]

----------------------------------------------------------------------------
(* app/utils/filter_data.py, app/utils/get_data.py: the corpus             *)

\* variant: a row joins the group only if it is the one being built (the
\* last one); a layout_id met again later starts another group
RECURSIVE group_by_running_layout(_)
group_by_running_layout(rows) ==
    IF rows = <<>> THEN <<>>
    ELSE LET groups == group_by_running_layout(SubSeq(rows, 1, Len(rows) - 1))
             row == rows[Len(rows)]
             triple == <<row.operation_name, row.machine_name, row.operation_seq>>
         IN  IF groups # <<>> /\ groups[Len(groups)].layout_id = row.layout_id
             THEN [groups EXCEPT ![Len(groups)].operation_data = Append(@, triple)]
             ELSE Append(groups, [layout_id |-> row.layout_id,
                                  layout_code |-> row.layout_code,
                                  operation_data |-> <<triple>>])

\* reorganized_data: one record per layout_id, in order of first
\* appearance, holding the (name, machine, seq) triples of its rows in row
\* order; layout_code is the one of the first row
RECURSIVE group_by_layout(_)
group_by_layout(rows) ==
    IF rows = <<>> THEN <<>>
    ELSE LET groups == group_by_layout(SubSeq(rows, 1, Len(rows) - 1))
             row == rows[Len(rows)]
             triple == <<row.operation_name, row.machine_name, row.operation_seq>>
         IN  IF \E g \in 1..Len(groups) : groups[g].layout_id = row.layout_id
             THEN [g \in 1..Len(groups) |->
                     IF groups[g].layout_id = row.layout_id
                     THEN [groups[g] EXCEPT !.operation_data = Append(@, triple)]
                     ELSE groups[g]]
             ELSE Append(groups, [layout_id |-> row.layout_id,
                                  layout_code |-> row.layout_code,
                                  operation_data |-> <<triple>>])

filter_by_style_type(style_type, ob_datasource_json) ==
    LET keep(record) == record.style_type = style_type
    IN  group_by_layout(SelectSeq(ob_datasource_json, keep))

\* variant: the tenant test is left out
filter_by_style_only(tenant_ids, style_type, ob_datasource_json) ==
    LET keep(record) == style_type = None \/ record.style_type = style_type
    IN  group_by_layout(SelectSeq(ob_datasource_json, keep))

filter_by_tenant_and_style(tenant_ids, style_type, ob_datasource_json) ==
    LET keep(record) ==
            /\ record.tenant_id \in tenant_ids
            /\ (style_type = None \/ record.style_type = style_type)
    IN  group_by_layout(SelectSeq(ob_datasource_json, keep))

\* a row of the join of layout, styletype, layout_operation and machine
DbRow(tenant_id, style_type, layout_id, operation_name, machine_name, operation_seq) ==
    [tenant_id |-> tenant_id, style_type |-> style_type,
     layout_id |-> layout_id, layout_code |-> 10 + layout_id,
     operation_name |-> operation_name, machine_name |-> machine_name,
     operation_seq |-> operation_seq]

\* the rows the service's database joins to, already in
\* ORDER BY layout_id, operation_seq: layouts of two tenants and two styles
DbRows ==
    << DbRow(1, <<"a">>, 1, <<"a", "b">>, <<"A">>, 1),
       DbRow(1, <<"a">>, 1, <<"b">>,      <<"B">>, 2),
       DbRow(1, <<"a">>, 2, <<"b">>,      <<"B">>, 1),
       DbRow(2, <<"a">>, 3, <<"a", "b">>, <<"B">>, 1),
       DbRow(1, <<"b">>, 4, <<"b">>,      <<"A">>, 1) >>

\* the allocation table of the handlers' database: no NULL run_efficiency,
\* so the database's NULL ordering does not show
DbAllocations ==
    << [layout_id |-> 1, allocation_id |-> 1,
        run_efficiency |-> [kind |-> "Decimal", v |-> 80]],
       [layout_id |-> 2, allocation_id |-> 2,
        run_efficiency |-> [kind |-> "Decimal", v |-> 60]] >>

\* an argument that is an int, and one that is a list of ints
IntArg(n) == [type |-> "int", ids |-> {n}]

ListArg(ids) == [type |-> "list", ids |-> ids]

\* get_op_data(tenant_ids, style_type): tuple(tenant_ids) raises TypeError
\* when it is handed an int; a style_type that is None or '' is no filter,
\* any other is stripped; no row gives HTTPException 404
get_op_data(tenant_ids, style_type) ==
    IF tenant_ids.type = "int"
    THEN [exc |-> "TypeError", status |-> 500, data_records |-> <<>>]
    ELSE LET wanted(row) ==
                 /\ row.tenant_id \in tenant_ids.ids
                 /\ (\/ style_type = None
                     \/ style_type = <<>>
                     \/ row.style_type = str_strip(style_type))
             results == SelectSeq(DbRows, wanted)
         IN  IF results = <<>>
             THEN [exc |-> "HTTPException", status |-> 404, data_records |-> <<>>]
             ELSE [exc |-> "none", status |-> 200,
                   data_records |-> group_by_layout(results)]

----------------------------------------------------------------------------
(* app/utils/text_compare.py: ranking                                      *)

\* the dict process_record returns; exc is the exception the call ends
\* with, "none" if it returns
result_dict(record, scores) ==
    [exc |-> scores.exc,
     layout_id |-> record.layout_id,
     layout_code |-> record.layout_code,
     operation_similarity_score |-> scores.operation_similarity_score,
     machine_similarity_score |-> scores.machine_similarity_score,
     total_similarity_score |-> scores.total_similarity_score]

process_record(record, operation_machine_list) ==
    result_dict(record,
                compare_ob_v2(operation_machine_list,
                              get_operation_machine_list_db(record.operation_data)))

\* the dict a ranking puts in its result list
SimilarityResult(r) ==
    [layout_id |-> r.layout_id,
     layout_code |-> r.layout_code,
     operation_similarity_score |-> r.operation_similarity_score,
     machine_similarity_score |-> r.machine_similarity_score,
     total_similarity_score |-> r.total_similarity_score]

\* list.sort(key=total_similarity_score, reverse=True): position i goes in
\* front of the first entry whose key is smaller; stable; a nan key
\* compares false with everything and stays where it is appended
RECURSIVE insert_desc(_, _, _)
insert_desc(i, order, keys) ==
    IF order = <<>> THEN <<i>>
    ELSE IF FLt(keys[Head(order)], keys[i]) THEN <<i>> \o order
    ELSE <<Head(order)>> \o insert_desc(i, Tail(order), keys)

RECURSIVE desc_order_upto(_, _)
desc_order_upto(n, keys) ==
    IF n = 0 THEN <<>> ELSE insert_desc(n, desc_order_upto(n - 1, keys), keys)

reordered(xs, order) == [i \in 1..Len(xs) |-> xs[order[i]]]

\* variant: reverse=True is left out, the list comes out ascending
sort_by_total_ascending(result) ==
    sorted_by_key(result, [i \in 1..Len(result) |-> result[i].total_similarity_score])

sort_by_total(result) ==
    reordered(result,
              desc_order_upto(Len(result),
                  [i \in 1..Len(result) |-> result[i].total_similarity_score]))

\* variant: the result list is assigned the new result, not appended to
append_scored_replacing(before, scored) ==
    IF before.exc # "none" THEN before
    ELSE IF scored.exc # "none" THEN [exc |-> scored.exc, result |-> <<>>]
    ELSE [exc |-> "none", result |-> <<SimilarityResult(scored)>>]

\* one turn of the loop of get_ob_similarity_score: score the record,
\* append, sort; an exception of compare_ob_v2 ends the call
append_scored(before, scored) ==
    IF before.exc # "none" THEN before
    ELSE IF scored.exc # "none" THEN [exc |-> scored.exc, result |-> <<>>]
    ELSE [exc |-> "none",
          result |-> sort_by_total(Append(before.result, SimilarityResult(scored)))]

\* get_ob_similarity_score after the first n records
RECURSIVE ob_similarity_upto(_, _, _)
ob_similarity_upto(operation_machine_list, database_records, n) ==
    IF n = 0 THEN [exc |-> "none", result |-> <<>>]
    ELSE append_scored(
            ob_similarity_upto(operation_machine_list, database_records, n - 1),
            process_record(database_records[n], operation_machine_list))

get_ob_similarity_score(request_operation_data, database_records) ==
    ob_similarity_upto(get_operation_machine_list(request_operation_data),
                       database_records, Len(database_records))

\* get_ob_similarity_score_v2, submission: one future per record
submit_futures(request_operation_data, database_records) ==
    [i \in 1..Len(database_records) |->
        process_record(database_records[i],
                       get_operation_machine_list(request_operation_data))]

\* variant: the results are returned as they complete, the sort is left out
collect_futures_unsorted(done_futures, completion_order) ==
    IF \E i \in 1..Len(done_futures) : done_futures[i].exc # "none"
    THEN [exc |-> "ValueError", result |-> <<>>]
    ELSE [exc |-> "none",
          result |-> [k \in 1..Len(completion_order) |->
                         SimilarityResult(done_futures[completion_order[k]])]]

\* get_ob_similarity_score_v2, collection: future.result() in the order of
\* completion re-raises a worker's exception; else the list is sorted once
collect_futures(done_futures, completion_order) ==
    IF \E i \in 1..Len(done_futures) : done_futures[i].exc # "none"
    THEN [exc |-> done_futures[CHOOSE i \in 1..Len(done_futures) :
                                   done_futures[i].exc # "none"].exc,
          result |-> <<>>]
    ELSE [exc |-> "none",
          result |-> sort_by_total([k \in 1..Len(completion_order) |->
                                       SimilarityResult(done_futures[completion_order[k]])])]

----------------------------------------------------------------------------
(* app/routes/search.py                                                    *)

\* variant: one result too many is kept
top_k_one_more(results, no_of_results) ==
    SubSeq(results, 1, Min2(no_of_results + 1, Len(results)))

\* results[:no_of_results] if len(results) > no_of_results
\* else results[:len(results)]
top_k(results, no_of_results) ==
    IF Len(results) > no_of_results
    THEN SubSeq(results, 1, no_of_results)
    ELSE SubSeq(results, 1, Len(results))

\* float(x) of a run_efficiency that is not None
to_float(x) == IF x.kind = "null" THEN x ELSE [kind |-> "float", v |-> x.v]

\* variant: the result is rebuilt and layout_code is filled from layout_id
with_allocation_data_rebuilt(result, allocation_data) ==
    [layout_id |-> result.layout_id,
     layout_code |-> result.layout_id,
     operation_similarity_score |-> result.operation_similarity_score,
     machine_similarity_score |-> result.machine_similarity_score,
     total_similarity_score |-> result.total_similarity_score,
     allocation_data |-> allocation_data]

\* a result with its allocation_data
with_allocation_data(result, allocation_data) ==
    [layout_id |-> result.layout_id,
     layout_code |-> result.layout_code,
     operation_similarity_score |-> result.operation_similarity_score,
     machine_similarity_score |-> result.machine_similarity_score,
     total_similarity_score |-> result.total_similarity_score,
     allocation_data |-> allocation_data]

\* variant: the layout_id test is left out
allocations_of_any(result, allocation_data_dict) ==
    LET mine(allocation) == allocation.layout_id \in Int
    IN  SelectSeq(allocation_data_dict, mine)

\* the allocations appended for a result: those with its layout_id, in the
\* order of the list they are taken from
allocations_of(result, allocation_data_dict) ==
    LET mine(allocation) == allocation.layout_id = result.layout_id
    IN  SelectSeq(allocation_data_dict, mine)

\* run_efficiency = float(run_efficiency) for the first `upto` allocations
\* whose run_efficiency is not None
floats_upto(allocation_data, upto) ==
    [a \in 1..Len(allocation_data) |->
        IF a <= upto
        THEN [allocation_data[a] EXCEPT !.run_efficiency = to_float(@)]
        ELSE allocation_data[a]]

first_n(xs, n) == SubSeq(xs, 1, Min2(n, Len(xs)))

\* an enricher's except clause: HTTPException 500
EnrichmentFailed == [exc |-> "HTTPException", status |-> 500, results |-> <<>>]

\* the rows of the allocation table with layout_id IN :layout_ids
allocation_rows_in(top_results, allocation) ==
    LET layout_ids == {top_results[i].layout_id : i \in 1..Len(top_results)}
        wanted(row) == row.layout_id \in layout_ids
    IN  SelectSeq(allocation, wanted)

\* the sort key of add_allocation_data, (run_efficiency is None, value or
\* -Infinity), as one number: a None compares above every value
none_first_key(allocation) ==
    IF allocation.run_efficiency.kind = "null" THEN 1000
    ELSE allocation.run_efficiency.v

\* allocation_data.sort(key=..., reverse=True): stable, descending
sort_allocations(allocation_data) ==
    reordered(allocation_data,
              desc_order_upto(Len(allocation_data),
                  [a \in 1..Len(allocation_data) |-> none_first_key(allocation_data[a])]))

\* add_allocation_data: every allocation of the results' layouts is
\* fetched (no row: 404, turned into a 500); per result its allocations are
\* sorted, the first three converted to float, the first
\* no_of_allocations attached
add_allocation_data(top_results, no_of_allocations, allocation) ==
    IF allocation_rows_in(top_results, allocation) = <<>>
    THEN EnrichmentFailed
    ELSE [exc |-> "none", status |-> 200,
          results |->
            [i \in 1..Len(top_results) |->
                with_allocation_data(top_results[i],
                    first_n(floats_upto(sort_allocations(
                                allocations_of(top_results[i],
                                    allocation_rows_in(top_results, allocation))), 3),
                            no_of_allocations))]]

\* add_allocation_data_ds: the rows of the datasource with the result's
\* layout_id, in datasource order, cut to no_of_allocations; iterating a
\* missing datasource raises, which the function turns into a 500
add_allocation_data_ds(top_results, allocation_datasource, no_of_allocations) ==
    IF top_results # <<>> /\ allocation_datasource.is_none
    THEN EnrichmentFailed
    ELSE [exc |-> "none", status |-> 200,
          results |->
            [i \in 1..Len(top_results) |->
                with_allocation_data(top_results[i],
                    first_n(floats_upto(allocations_of(top_results[i],
                                                       allocation_datasource.rows),
                                        Len(allocation_datasource.rows)),
                            no_of_allocations))]]

\* ORDER BY run_efficiency DESC: whether NULL sorts before or after the
\* values is the database's choice (nulls_first)
order_by_run_efficiency_desc(rows, nulls_first) ==
    reordered(rows,
              desc_order_upto(Len(rows),
                  [a \in 1..Len(rows) |->
                      IF rows[a].run_efficiency.kind # "null" THEN rows[a].run_efficiency.v
                      ELSE IF nulls_first THEN 1000 ELSE 0 - 1]))

\* the rows add_allocation_data_v2 fetches: one query for all results,
\* ORDER BY run_efficiency DESC LIMIT no_of_allocations + 1
fetch_allocations_v2(top_results, no_of_allocations, allocation, nulls_first) ==
    first_n(order_by_run_efficiency_desc(allocation_rows_in(top_results, allocation),
                                         nulls_first),
            no_of_allocations + 1)

\* add_allocation_data_v2: the fetched rows of each result, all of them;
\* no row gives a 404 that the function turns into a 500
add_allocation_data_v2(top_results, no_of_allocations, allocation, nulls_first) ==
    IF fetch_allocations_v2(top_results, no_of_allocations, allocation, nulls_first) = <<>>
    THEN EnrichmentFailed
    ELSE [exc |-> "none", status |-> 200,
          results |->
            [i \in 1..Len(top_results) |->
                with_allocation_data(top_results[i],
                    floats_upto(
                        allocations_of(top_results[i],
                            fetch_allocations_v2(top_results, no_of_allocations,
                                                 allocation, nulls_first)),
                        no_of_allocations + 1))]]

\* JSONResponse(content=...) encodes with allow_nan=False: a nan score
\* raises ValueError inside the handler's try block
json_serializable(results) ==
    \A i \in 1..Len(results) :
        /\ ~IsNaN(results[i].operation_similarity_score)
        /\ ~IsNaN(results[i].machine_similarity_score)
        /\ ~IsNaN(results[i].total_similarity_score)

\* what the client receives
ErrorResponse(status) ==
    [status |-> status, total_obs |-> 0, no_of_results |-> 0, results |-> <<>>]

\* the JSONResponse of a handler, or the 500 its except clause makes of the
\* ValueError
SearchResponse(results, top_results, returned) ==
    IF json_serializable(returned)
    THEN [status |-> 200, total_obs |-> Len(results),
          no_of_results |-> Len(top_results), results |-> returned]
    ELSE ErrorResponse(500)

----------------------------------------------------------------------------
(* Input pools                                                             *)

\* operation steps (operation_name, machine_name, sequence_number): names
\* that differ only in case and spacing, a reordered name, a name without
\* letters or digits; sequence numbers with ties
StepPool ==
    { << <<"a", "b">>,      <<"A">>,      2 >>,
      << <<"A", "b", " ">>, <<"B">>,      1 >>,
      << <<"b">>,           <<" ", "a">>, 1 >>,
      << <<"b", " ", "a">>, <<"B">>,      2 >>,
      << <<"-">>,           <<"A">>,      1 >> }

\* the steps the query of a scoring run is drawn from
QueryStepPool ==
    { << <<"a", "b">>,      <<"A">>,      2 >>,
      << <<"A", "b", " ">>, <<"B">>,      1 >>,
      << <<"b", " ", "a">>, <<"B">>,      2 >>,
      << <<"-">>,           <<"A">>,      1 >> }

RECURSIVE SeqsUpTo(_, _)
SeqsUpTo(S, n) ==
    IF n = 0 THEN {<<>>}
    ELSE LET shorter == SeqsUpTo(S, n - 1)
         IN  shorter \cup {Append(xs, x) : xs \in {ys \in shorter : Len(ys) = n - 1}, x \in S}

\* sequences of at most n distinct elements of S
InjSeqsUpTo(S, n) ==
    {xs \in SeqsUpTo(S, n) : \A i, j \in 1..Len(xs) : i # j => xs[i] # xs[j]}

\* class OperationData / OperationDataItem: a step of the request body
OperationData(t) ==
    [operation_name |-> t[1], machine_name |-> t[2], sequence_number |-> t[3]]

AsOperationData(ts) == [i \in 1..Len(ts) |-> OperationData(ts[i])]

\* operation_data of the search requests: none, one step, two steps sent
\* out of order
QueryPool ==
    { <<>>,
      AsOperationData(<< << <<"a", "b">>, <<"A">>, 2 >> >>),
      AsOperationData(<< << <<"b", " ", "a">>, <<"B">>, 2 >>,
                         << <<"A", "b", " ">>, <<"B">>, 1 >> >>) }

StyleTypes == {<<"a">>, <<"b">>}

\* a flat row of ob_datasource
ObRow(style_type, layout_id, operation_name, machine_name, operation_seq) ==
    [tenant_id |-> 1, style_type |-> style_type,
     layout_id |-> layout_id, layout_code |-> 10 + layout_id,
     operation_name |-> operation_name, machine_name |-> machine_name,
     operation_seq |-> operation_seq]

\* rows of three layouts: a layout of two operations stored out of order,
\* two layouts of one operation, a row of another style, a row whose
\* operation_name is null
RowPool ==
    { ObRow(<<"a">>, 1, <<"a", "b">>,      <<"A">>,      2),
      ObRow(<<"a">>, 1, <<"b">>,           <<" ", "a">>, 1),
      ObRow(<<"a">>, 2, <<"b", " ", "a">>, <<"B">>,      1),
      ObRow(<<"a">>, 3, <<"A", "b", " ">>, <<" ", "a">>, 2),
      ObRow(<<"b">>, 2, <<"a", "b">>,      <<"A">>,      1),
      ObRow(<<"a">>, 2, None,          <<"B">>,      2) }

\* a row of allocation_datasource
AllocRow(layout_id, allocation_id, run_efficiency) ==
    [layout_id |-> layout_id, allocation_id |-> allocation_id,
     run_efficiency |-> run_efficiency]

\* allocation_datasource: List[dict] = None; not sent, empty, and rows of
\* two layouts with a run_efficiency that is null
AllocationSources ==
    { [is_none |-> TRUE, rows |-> <<>>],
      [is_none |-> FALSE, rows |-> <<>>],
      [is_none |-> FALSE,
       rows |-> << AllocRow(1, 1, [kind |-> "int", v |-> 80]),
                   AllocRow(2, 2, [kind |-> "null", v |-> 0]),
                   AllocRow(1, 3, [kind |-> "int", v |-> 90]) >>] }

\* no_of_allocations of the requests
AllocationCounts == {1, 2}

\* the bodies of SearchRequest and SearchRequestDataSource; /search-ds
\* without allocation_data never reads the allocation fields, they are
\* held at one value
SearchRequests ==
    [handler : {"search"}, tenant_id : {1, 2}, style_type : StyleTypes,
     allocation_data : BOOLEAN, no_of_results : 1..MaxResults,
     no_of_allocations : AllocationCounts, operation_data : QueryPool,
     ob_datasource : {<<>>}, allocation_datasource : {[is_none |-> TRUE, rows |-> <<>>]}]

SearchDsRequests(allocation_data) ==
    [handler : {"search-ds"}, tenant_id : {1}, style_type : StyleTypes,
     allocation_data : {allocation_data}, no_of_results : 1..MaxResults,
     no_of_allocations : IF allocation_data THEN AllocationCounts ELSE {1},
     operation_data : QueryPool,
     ob_datasource : InjSeqsUpTo(RowPool, MaxRows),
     allocation_datasource :
        IF allocation_data THEN AllocationSources
        ELSE {[is_none |-> TRUE, rows |-> <<>>]}]

\* no_of_results and no_of_allocations that are not both positive
NonPositiveCounts == {<<0, 1>>, <<1, 0>>, <<0 - 1, 1>>}

\* bodies with such counts: a one-step query and, for /search-ds, a corpus
\* of one matching row
BadCountRequests(handler, allocation_data) ==
    {[handler |-> handler, tenant_id |-> 1, style_type |-> <<"a">>,
      allocation_data |-> allocation_data,
      no_of_results |-> counts[1], no_of_allocations |-> counts[2],
      operation_data |-> AsOperationData(<< << <<"a", "b">>, <<"A">>, 2 >> >>),
      ob_datasource |->
          IF handler = "search" THEN <<>>
          ELSE <<ObRow(<<"a">>, 1, <<"a", "b">>, <<"A">>, 2)>>,
      allocation_datasource |-> [is_none |-> TRUE, rows |-> <<>>]] :
        counts \in NonPositiveCounts}

\* Field(..., gt=0) of no_of_results and no_of_allocations; operation_data
\* is List[OperationDataItem] without a minimum length
RequestValidationError(req) ==
    req.no_of_results <= 0 \/ req.no_of_allocations <= 0

----------------------------------------------------------------------------
(* State                                                                   *)

VARIABLES
    sc_pc,                            \* position of the scoring run
    operation_data,                   \* the query steps, as received
    db_operation_data,                \* a record's operation_data triples
    operation_machine_list,           \* the normalized query
    database_record_op_machine_list,  \* the normalized record
    similarity_scores,                \* what compare_ob_v2 returned
    similarity_rounding,              \* the float64 roundings of its three scores
    pc,                \* "idle", "pool" (worker tasks in flight), "responded"
    request,           \* the request being handled
    database_records,  \* the corpus the ranking is given
    futures,           \* the outcome of the task of every corpus record
    as_completed,      \* the tasks that are done, in order of completion
    results,           \* what the ranking returned: [exc, result]
    top_results,       \* the slice the handler took
    response,          \* what the client receives
    en_pc,             \* "idle" or "input": an enrichment's inputs are drawn
    allocation,        \* the rows of the allocation table, in fetch order
    ranked_top,        \* the top results handed to the enrichers
    n_allocations,     \* no_of_allocations
    by_db,             \* what add_allocation_data returned
    by_db_v2,          \* what add_allocation_data_v2 returned
    by_ds,             \* what add_allocation_data_ds returned
    fl_pc,             \* "idle" or "input": a filter's inputs are drawn
    ob_datasource_json,  \* the flat operation rows handed to the filters
    fl_style_type,     \* the requested style_type
    fl_tenant_ids,     \* the requested tenant_ids
    by_style,          \* what filter_by_style_type returned
    by_tenant_and_style,  \* what filter_by_tenant_and_style returned
    op_data,           \* what get_op_data returned
    gw_pc,             \* gateway: "idle", "input", "posted" (waiting for the
                       \* OB service), "responded"
    gw_form,           \* the form fields of the gateway request
    request_data_ob,   \* the JSON body the gateway posts to /ob/search
    ob_response,       \* what requests.post gave: a reply or an exception
    gw_response,       \* what the gateway's client receives
    s3_pc,             \* "idle", "input" (a key is drawn), "parsed"
    key,               \* the S3 object key handed to parse_s3_key
    parsed_key,        \* what parse_s3_key returned
    sv_pc,             \* save-image: "idle", "uploaded", "embedded", "failed"
                       \* (the except clause is entered), "cleaned" (the
                       \* delete was tried), "responded"
    form_data,         \* the ImageSaveForm of the save request
    file_name,         \* the object key the handler made for the upload
    s3_objects,        \* the object keys the bucket holds
    fvector_pg,        \* the rows of the vector table
    sv_raised,         \* the call of the handler that raised, or "none"
    delete_calls,      \* the delete_from_s3 calls made: key and outcome
    sv_response,       \* what the client of save-image receives
    uuids              \* how many uuid4 values have been drawn

scoreVars == <<sc_pc, operation_data, db_operation_data, operation_machine_list,
               database_record_op_machine_list, similarity_scores, similarity_rounding>>

searchVars == <<pc, request, database_records, futures, as_completed, results,
                top_results, response>>

enrichVars == <<en_pc, allocation, ranked_top, n_allocations, by_db, by_db_v2, by_ds>>

filterVars == <<fl_pc, ob_datasource_json, fl_style_type, fl_tenant_ids, by_style,
                by_tenant_and_style, op_data>>

gatewayVars == <<gw_pc, gw_form, request_data_ob, ob_response, gw_response>>

s3KeyVars == <<s3_pc, key, parsed_key>>

saveVars == <<sv_pc, form_data, file_name, s3_objects, fvector_pg, sv_raised,
              delete_calls, sv_response, uuids>>

otherVars == <<gatewayVars, s3KeyVars, saveVars>>

dataVars == <<enrichVars, filterVars, otherVars>>

vars == <<scoreVars, searchVars, dataVars>>

NoScores ==
    [exc |-> "none", operation_similarity_score |-> NaN,
     machine_similarity_score |-> NaN, total_similarity_score |-> NaN]

NoRequest ==
    [handler |-> "none", tenant_id |-> 0, style_type |-> <<>>,
     allocation_data |-> FALSE, no_of_results |-> 1, no_of_allocations |-> 1,
     operation_data |-> <<>>, ob_datasource |-> <<>>,
     allocation_datasource |-> [is_none |-> TRUE, rows |-> <<>>]]

NoRanking == [exc |-> "none", result |-> <<>>]

NoResponse == [status |-> 0, total_obs |-> 0, no_of_results |-> 0, results |-> <<>>]

ScoreIdle ==
    /\ sc_pc = "idle"
    /\ operation_data = <<>>
    /\ db_operation_data = <<>>
    /\ operation_machine_list = <<>>
    /\ database_record_op_machine_list = <<>>
    /\ similarity_scores = NoScores
    /\ similarity_rounding = NoRounding

\* an enricher that has not run
NotEnriched == [exc |-> "pending", status |-> 0, results |-> <<>>]

\* a filter that has not run
NotFiltered == [exc |-> "pending", status |-> 0, data_records |-> <<>>]

EnrichIdle ==
    /\ en_pc = "idle"
    /\ allocation = <<>>
    /\ ranked_top = <<>>
    /\ n_allocations = 1
    /\ by_db = NotEnriched
    /\ by_db_v2 = NotEnriched
    /\ by_ds = NotEnriched

FilterIdle ==
    /\ fl_pc = "idle"
    /\ ob_datasource_json = <<>>
    /\ fl_style_type = <<>>
    /\ fl_tenant_ids = {}
    /\ by_style = NotFiltered
    /\ by_tenant_and_style = NotFiltered
    /\ op_data = NotFiltered

\* the form of a gateway request that has not arrived
NoForm ==
    [search_type |-> "none", allocation_data |-> FALSE, tenant_id |-> "0",
     style_type |-> <<>>, no_of_results_ob |-> 10, no_of_allocations |-> 5,
     operation_data |-> [text |-> "none", parsed |-> <<>>]]

\* no body posted
NoBody == [posted |-> FALSE]

\* the call to the OB service has not returned
NoReply == [outcome |-> "pending", status |-> 0, results |-> <<>>]

NoGatewayResponse == [status |-> 0, detail |-> "none", operation_results |-> <<>>]

GatewayIdle ==
    /\ gw_pc = "idle"
    /\ gw_form = NoForm
    /\ request_data_ob = NoBody
    /\ ob_response = NoReply
    /\ gw_response = NoGatewayResponse

\* parse_s3_key has not returned
NotParsed == [tenant_id |-> <<>>, style_type |-> <<>>, done |-> FALSE]

S3KeyIdle ==
    /\ s3_pc = "idle"
    /\ key = <<>>
    /\ parsed_key = NotParsed

\* no save request
NoSaveForm == [tenant_id |-> 0, style_number |-> 0]

NoFileName == [tenant_id |-> 0, uuid |-> 0]

NoSaveResponse == [status |-> 0, id |-> 0]

\* the image service with an empty bucket and an empty vector table
SaveIdle ==
    /\ sv_pc = "idle"
    /\ form_data = NoSaveForm
    /\ file_name = NoFileName
    /\ s3_objects = {}
    /\ fvector_pg = {}
    /\ sv_raised = "none"
    /\ delete_calls = <<>>
    /\ sv_response = NoSaveResponse
    /\ uuids = 0

OtherIdle == GatewayIdle /\ S3KeyIdle /\ SaveIdle

DataIdle == EnrichIdle /\ FilterIdle /\ OtherIdle

SearchIdle ==
    /\ pc = "idle"
    /\ request = NoRequest
    /\ database_records = <<>>
    /\ futures = <<>>
    /\ as_completed = <<>>
    /\ results = NoRanking
    /\ top_results = <<>>
    /\ response = NoResponse

----------------------------------------------------------------------------
(* Scoring one record: the body of process_record, on drawn inputs         *)

InitScore ==
    /\ sc_pc = "input"
    /\ operation_data \in {AsOperationData(ts) : ts \in SeqsUpTo(QueryStepPool, MaxQuerySteps)}
    /\ db_operation_data \in SeqsUpTo(StepPool, MaxRefSteps)
    /\ operation_machine_list = <<>>
    /\ database_record_op_machine_list = <<>>
    /\ similarity_scores = NoScores
    /\ similarity_rounding = NoRounding
    /\ SearchIdle
    /\ DataIdle

Normalize ==
    /\ sc_pc = "input"
    /\ operation_machine_list' = get_operation_machine_list(operation_data)
    /\ database_record_op_machine_list' = get_operation_machine_list_db(db_operation_data)
    /\ sc_pc' = "normalized"
    /\ UNCHANGED <<operation_data, db_operation_data, similarity_scores,
                   similarity_rounding, searchVars, dataVars>>

Score ==
    /\ sc_pc = "normalized"
    /\ similarity_scores' =
           compare_ob_v2(operation_machine_list, database_record_op_machine_list)
    /\ similarity_rounding' =
           compare_ob_v2_rounding(operation_machine_list, database_record_op_machine_list)
    /\ sc_pc' = "scored"
    /\ UNCHANGED <<operation_data, db_operation_data, operation_machine_list,
                   database_record_op_machine_list, searchVars, dataVars>>

NextScore == Normalize \/ Score

SpecScore == InitScore /\ [][NextScore]_vars

\* the reordering runs: queries of up to MaxReorderSteps steps whose
\* sequence numbers are equal, so that the normalizer keeps them in the
\* order drawn and every order of the same steps is scored, against
\* references of distinct steps (a repeated reference step adds nothing to
\* a maximum)
ReorderQueryPool ==
    { << <<"-">>,           <<"A">>, 1 >>,
      << <<"A", "b", " ">>, <<"B">>, 1 >>,
      << <<"b", " ", "a">>, <<"B">>, 1 >> }

ReorderRefPool ==
    { << <<"-">>, <<"A">>,      1 >>,
      << <<"b">>, <<" ", "a">>, 1 >> }

InitReorder ==
    /\ sc_pc = "input"
    /\ operation_data \in {AsOperationData(ts) :
                              ts \in SeqsUpTo(ReorderQueryPool, MaxReorderSteps)}
    /\ db_operation_data \in InjSeqsUpTo(ReorderRefPool, MaxRefSteps)
    /\ operation_machine_list = <<>>
    /\ database_record_op_machine_list = <<>>
    /\ similarity_scores = NoScores
    /\ similarity_rounding = NoRounding
    /\ SearchIdle
    /\ DataIdle

SpecReorder == InitReorder /\ [][NextScore]_vars

----------------------------------------------------------------------------
(* The search handlers                                                     *)

Init == ScoreIdle /\ SearchIdle /\ DataIdle

\* the enrichment of the handler's slice
add_allocation_data_of(req, top) ==
    IF req.handler = "search"
    THEN add_allocation_data_v2(top, req.no_of_allocations, DbAllocations, TRUE)
    ELSE add_allocation_data_ds(top, req.allocation_datasource, req.no_of_allocations)

\* the response with allocation data: an exception of the enrichment
\* leaves through `except Exception`
EnrichedResponse(ranked, top, enriched) ==
    IF enriched.exc # "none"
    THEN ErrorResponse(500)
    ELSE SearchResponse(ranked.result, top, enriched.results)

\* the rest of a handler once the ranking has returned or raised: the
\* ranked list is cut and sent (or, with allocation data, enriched first)
Respond(req, ranked, enrich) ==
    /\ results' = ranked
    /\ IF ranked.exc # "none"
       THEN /\ top_results' = <<>>
            /\ response' = ErrorResponse(500)
       ELSE /\ top_results' = top_k(ranked.result, req.no_of_results)
            /\ response' =
                 IF enrich
                 THEN EnrichedResponse(ranked, top_k(ranked.result, req.no_of_results),
                          add_allocation_data_of(req,
                              top_k(ranked.result, req.no_of_results)))
                 ELSE SearchResponse(ranked.result,
                                     top_k(ranked.result, req.no_of_results),
                                     top_k(ranked.result, req.no_of_results))

\* a body that fails the model's validation never reaches the handler:
\* FastAPI answers 422
unprocessable(req) ==
    /\ request' = req
    /\ pc' = "responded"
    /\ response' = ErrorResponse(422)
    /\ results' = [exc |-> "RequestValidationError", result |-> <<>>]
    /\ UNCHANGED <<database_records, futures, as_completed, top_results>>

\* POST /search: get_op_data is handed request.tenant_id, an int, and every
\* exception, HTTPException included, leaves through `except Exception` as
\* a 500.  With allocation_data the ranking is sequential and enriched from
\* the database, without it the ranking goes to the process pool.
search_ranked(req, data) ==
    /\ request' = req
    /\ database_records' = data.data_records
    /\ IF data.exc # "none"
       THEN /\ pc' = "responded"
            /\ response' = ErrorResponse(500)
            /\ UNCHANGED <<futures, as_completed, results, top_results>>
       ELSE IF req.allocation_data
       THEN /\ pc' = "responded"
            /\ Respond(req, get_ob_similarity_score(req.operation_data,
                                                    data.data_records), TRUE)
            /\ UNCHANGED <<futures, as_completed>>
       ELSE /\ pc' = "pool"
            /\ futures' = submit_futures(req.operation_data, data.data_records)
            /\ UNCHANGED <<as_completed, results, top_results, response>>

search ==
    /\ pc = "idle"
    /\ \E req \in SearchRequests \cup BadCountRequests("search", FALSE) :
          IF RequestValidationError(req)
          THEN unprocessable(req)
          ELSE search_ranked(req, get_op_data(IntArg(req.tenant_id), req.style_type))
    /\ UNCHANGED <<scoreVars, dataVars>>

\* POST /search-ds without allocation_data: filter, sequential ranking,
\* top-k, response
search_data_source_2_ranked(req, filtered_data) ==
    /\ request' = req
    /\ database_records' = filtered_data
    /\ Respond(req, get_ob_similarity_score(req.operation_data, filtered_data), FALSE)

search_data_source_2_plain ==
    /\ pc = "idle"
    /\ \E req \in SearchDsRequests(FALSE) \cup BadCountRequests("search-ds", FALSE) :
          IF RequestValidationError(req)
          THEN unprocessable(req)
          ELSE /\ search_data_source_2_ranked(req,
                      filter_by_style_type(req.style_type, req.ob_datasource))
               /\ pc' = "responded"
               /\ UNCHANGED <<futures, as_completed>>
    /\ UNCHANGED <<scoreVars, dataVars>>

\* POST /search-ds with allocation_data: filter and hand one task per
\* record to the process pool
search_data_source_2_pooled(req, filtered_data) ==
    /\ request' = req
    /\ database_records' = filtered_data
    /\ futures' = submit_futures(req.operation_data, filtered_data)

search_data_source_2_submit ==
    /\ pc = "idle"
    /\ \E req \in SearchDsRequests(TRUE) \cup BadCountRequests("search-ds", TRUE) :
          IF RequestValidationError(req)
          THEN unprocessable(req)
          ELSE /\ search_data_source_2_pooled(req,
                      filter_by_style_type(req.style_type, req.ob_datasource))
               /\ pc' = "pool"
               /\ UNCHANGED <<as_completed, results, top_results, response>>
    /\ UNCHANGED <<scoreVars, dataVars>>

\* a worker finishes a task; the tasks finish in any order
future_done ==
    /\ pc = "pool"
    /\ \E i \in 1..Len(futures) :
          /\ \A k \in 1..Len(as_completed) : as_completed[k] # i
          /\ as_completed' = Append(as_completed, i)
    /\ UNCHANGED <<pc, request, database_records, futures, results, top_results,
                   response, scoreVars, dataVars>>

\* the pool is drained: get_ob_similarity_score_v2 returns (or raises) and
\* the handler goes on to top-k, enrichment and the response
pool_finished ==
    /\ pc = "pool"
    /\ Len(as_completed) = Len(futures)
    /\ Respond(request, collect_futures(futures, as_completed),
               request.handler = "search-ds")
    /\ pc' = "responded"
    /\ UNCHANGED <<request, database_records, futures, as_completed, scoreVars, dataVars>>

Next ==
    \/ search
    \/ search_data_source_2_plain
    \/ search_data_source_2_submit
    \/ future_done
    \/ pool_finished

Spec == Init /\ [][Next]_vars

----------------------------------------------------------------------------
(* The allocation enrichers, on drawn inputs                               *)

\* rows of the allocation table: two layouts, one of them with four rows,
\* distinct efficiencies, a NULL run_efficiency
AllocationRowPool ==
    { AllocRow(1, 1, [kind |-> "Decimal", v |-> 80]),
      AllocRow(1, 2, [kind |-> "Decimal", v |-> 90]),
      AllocRow(1, 3, [kind |-> "null", v |-> 0]),
      AllocRow(2, 4, [kind |-> "Decimal", v |-> 60]),
      AllocRow(1, 5, [kind |-> "Decimal", v |-> 70]) }

\* no_of_allocations handed to the enrichers: below, at and above the three
\* rows add_allocation_data converts
EnrichAllocationCounts == {1, 2, 4}

\* a ranked result of the layout
TopResult(layout_id) ==
    [layout_id |-> layout_id, layout_code |-> 10 + layout_id,
     operation_similarity_score |-> (100 - layout_id) * SCALE,
     machine_similarity_score |-> (100 - layout_id) * SCALE,
     total_similarity_score |-> (100 - layout_id) * SCALE]

\* top results: results of distinct layouts, one of them without
\* allocations
TopResultPool == {TopResult(1), TopResult(2), TopResult(3)}

\* the same rows as the caller's JSON sends them
as_datasource(rows) ==
    [is_none |-> FALSE,
     rows |-> [a \in 1..Len(rows) |->
                 [rows[a] EXCEPT !.run_efficiency =
                     IF @.kind = "null" THEN @ ELSE [kind |-> "int", v |-> @.v]]]]

InitEnrich ==
    /\ en_pc = "input"
    /\ allocation \in InjSeqsUpTo(AllocationRowPool, MaxAllocRows)
    /\ ranked_top \in InjSeqsUpTo(TopResultPool, MaxResults)
    /\ n_allocations \in EnrichAllocationCounts
    /\ by_db = NotEnriched
    /\ by_db_v2 = NotEnriched
    /\ by_ds = NotEnriched
    /\ ScoreIdle
    /\ SearchIdle
    /\ FilterIdle
    /\ OtherIdle

AddAllocationData ==
    /\ en_pc = "input"
    /\ by_db = NotEnriched
    /\ by_db' = add_allocation_data(ranked_top, n_allocations, allocation)
    /\ UNCHANGED <<en_pc, allocation, ranked_top, n_allocations, by_db_v2, by_ds,
                   scoreVars, searchVars, filterVars, otherVars>>

AddAllocationDataV2 ==
    /\ en_pc = "input"
    /\ by_db_v2 = NotEnriched
    /\ \E nulls_first \in BOOLEAN :
          by_db_v2' = add_allocation_data_v2(ranked_top, n_allocations, allocation,
                                             nulls_first)
    /\ UNCHANGED <<en_pc, allocation, ranked_top, n_allocations, by_db, by_ds,
                   scoreVars, searchVars, filterVars, otherVars>>

AddAllocationDataDs ==
    /\ en_pc = "input"
    /\ by_ds = NotEnriched
    /\ by_ds' = add_allocation_data_ds(ranked_top, as_datasource(allocation),
                                       n_allocations)
    /\ UNCHANGED <<en_pc, allocation, ranked_top, n_allocations, by_db, by_db_v2,
                   scoreVars, searchVars, filterVars, otherVars>>

NextEnrich == AddAllocationData \/ AddAllocationDataV2 \/ AddAllocationDataDs

SpecEnrich == InitEnrich /\ [][NextEnrich]_vars

----------------------------------------------------------------------------
(* The filters and the grouping, on drawn inputs                           *)

\* flat rows of two tenants, two styles and three layouts; the rows of a
\* layout need not be adjacent
FilterRowPool ==
    { DbRow(1, <<"a">>, 1, <<"a", "b">>, <<"A">>, 2),
      DbRow(1, <<"a">>, 1, <<"b">>,      <<"B">>, 1),
      DbRow(1, <<"a">>, 2, <<"b">>,      <<"B">>, 1),
      DbRow(2, <<"a">>, 2, <<"a", "b">>, <<"A">>, 2),
      DbRow(1, <<"b">>, 3, <<"b">>,      <<"A">>, 1),
      DbRow(2, <<"b">>, 1, <<"a", "b">>, <<"B">>, 3) }

\* style_type as requested: two styles, one with a trailing blank, None
FilterStyleTypes == {<<"a">>, <<"b">>, <<"a", " ">>, None}

\* tenant_ids as requested
TenantIdLists == {{1}, {2}, {1, 2}}

InitFilter ==
    /\ fl_pc = "input"
    /\ ob_datasource_json \in InjSeqsUpTo(FilterRowPool, MaxRows)
    /\ fl_style_type \in FilterStyleTypes
    /\ fl_tenant_ids \in TenantIdLists
    /\ by_style = NotFiltered
    /\ by_tenant_and_style = NotFiltered
    /\ op_data = NotFiltered
    /\ ScoreIdle
    /\ SearchIdle
    /\ EnrichIdle
    /\ OtherIdle

FilterByStyleType ==
    /\ fl_pc = "input"
    /\ by_style = NotFiltered
    /\ by_style' = [exc |-> "none", status |-> 200,
                    data_records |-> filter_by_style_type(fl_style_type,
                                                          ob_datasource_json)]
    /\ UNCHANGED <<fl_pc, ob_datasource_json, fl_style_type, fl_tenant_ids,
                   by_tenant_and_style, op_data, scoreVars, searchVars, enrichVars, otherVars>>

FilterByTenantAndStyle ==
    /\ fl_pc = "input"
    /\ by_tenant_and_style = NotFiltered
    /\ by_tenant_and_style' =
          [exc |-> "none", status |-> 200,
           data_records |-> filter_by_tenant_and_style(fl_tenant_ids, fl_style_type,
                                                       ob_datasource_json)]
    /\ UNCHANGED <<fl_pc, ob_datasource_json, fl_style_type, fl_tenant_ids,
                   by_style, op_data, scoreVars, searchVars, enrichVars, otherVars>>

GetOpData ==
    /\ fl_pc = "input"
    /\ op_data = NotFiltered
    /\ op_data' = get_op_data(ListArg(fl_tenant_ids), fl_style_type)
    /\ UNCHANGED <<fl_pc, ob_datasource_json, fl_style_type, fl_tenant_ids,
                   by_style, by_tenant_and_style, scoreVars, searchVars, enrichVars, otherVars>>

NextFilter == FilterByStyleType \/ FilterByTenantAndStyle \/ GetOpData

SpecFilter == InitFilter /\ [][NextFilter]_vars

----------------------------------------------------------------------------
(* api-gateway, app/routes/search.py: POST /search/ with an operation      *)
(* breakdown (search_type ob_only)                                         *)

\* operation_data of the form: not sent, '', text that is not JSON, a JSON
\* object, a JSON list: empty, of one step, of an item whose machine_name
\* is null
OperationDataForms ==
    { [text |-> "none", parsed |-> <<>>],
      [text |-> "empty", parsed |-> <<>>],
      [text |-> "not json", parsed |-> <<>>],
      [text |-> "object", parsed |-> <<>>],
      [text |-> "list", parsed |-> <<>>],
      [text |-> "list", parsed |-> AsOperationData(<< << <<"a", "b">>, <<"A">>, 2 >> >>)],
      [text |-> "list", parsed |-> AsOperationData(<< << <<"a", "b">>, None, 2 >> >>)] }

\* the form fields: search_type matches "^(ob_only|image_only|ob_and_image)",
\* a pattern without an end anchor; tenant_id is a str
GatewayForms ==
    [search_type : {"ob_only", "ob_only_v2"}, allocation_data : BOOLEAN,
     tenant_id : {"3", "x"}, style_type : {<<"a">>},
     no_of_results_ob : 1..MaxResults, no_of_allocations : {1},
     operation_data : OperationDataForms]

\* class OperationData of the gateway: both names are str
item_is_valid(item) == item.operation_name # None /\ item.machine_name # None

\* int(tenant_id) of a one-digit text
int_of(text) ==
    CASE text = "1" -> 1 [] text = "2" -> 2 [] text = "3" -> 3 [] OTHER -> 0

is_int_text(text) == text \in {"1", "2", "3"}

\* what the handler raises before it calls the OB service, "none" if it
\* gets to the call
raised_before_post(form) ==
    IF form.search_type # "ob_only" THEN "HTTPException 400"
    ELSE IF form.operation_data.text \in {"none", "empty"} THEN "HTTPException 400"
    ELSE IF form.operation_data.text = "not json" THEN "HTTPException 400"
    ELSE IF form.operation_data.text # "list" THEN "HTTPException 400"
    ELSE IF \E i \in 1..Len(form.operation_data.parsed) :
                ~item_is_valid(form.operation_data.parsed[i])
         THEN "ValidationError"
    ELSE IF ~is_int_text(form.tenant_id) THEN "ValueError"
    ELSE "none"

\* request_data_ob: an empty operation list is sent as null
ob_request_body(form) ==
    [posted |-> TRUE,
     tenant_id |-> int_of(form.tenant_id),
     allocation_data |-> form.allocation_data,
     style_type |-> form.style_type,
     no_of_results |-> form.no_of_results_ob,
     no_of_allocations |-> form.no_of_allocations,
     operation_data |->
         IF form.operation_data.parsed # <<>>
         THEN [is_none |-> FALSE, items |-> form.operation_data.parsed]
         ELSE [is_none |-> TRUE, items |-> <<>>]]

\* `except Exception as e: raise HTTPException(status_code=500,
\* detail=str(e))` around the whole handler; HTTPException is an Exception
internal_error(raised) ==
    [status |-> 500, detail |-> raised, operation_results |-> <<>>]

\* the JSONResponse built from the OB service's reply
gateway_response(reply) ==
    [status |-> 200, detail |-> "none", operation_results |-> reply.results]

\* the replies of the OB service to a body: a body whose operation_data is
\* null fails the service's validation; else an error status or a result
\* list of at most no_of_results entries
ObReplies(body) ==
    IF body.operation_data.is_none
    THEN {[outcome |-> "reply", status |-> 422, results |-> <<>>]}
    ELSE {[outcome |-> "reply", status |-> 500, results |-> <<>>],
          [outcome |-> "reply", status |-> 404, results |-> <<>>]}
         \cup {[outcome |-> "reply", status |-> 200, results |-> ids] :
                  ids \in {xs \in {<<>>, <<1>>, <<1, 2>>, <<1, 2, 3>>} :
                              Len(xs) <= body.no_of_results}}

\* the handler up to requests.post
gateway_search ==
    /\ gw_pc = "idle"
    /\ \E form \in GatewayForms :
          /\ gw_form' = form
          /\ IF raised_before_post(form) # "none"
             THEN /\ gw_pc' = "responded"
                  /\ gw_response' = internal_error(raised_before_post(form))
                  /\ UNCHANGED request_data_ob
             ELSE /\ gw_pc' = "posted"
                  /\ request_data_ob' = ob_request_body(form)
                  /\ UNCHANGED gw_response
    /\ UNCHANGED <<ob_response, scoreVars, searchVars, enrichVars, filterVars,
                   s3KeyVars, saveVars>>

\* the OB service answers within the timeout: raise_for_status() raises
\* HTTPError on a 4xx or 5xx status
ob_service_replies ==
    /\ gw_pc = "posted"
    /\ \E reply \in ObReplies(request_data_ob) :
          /\ ob_response' = reply
          /\ gw_response' = IF reply.status >= 400
                            THEN internal_error("HTTPError")
                            ELSE gateway_response(reply)
    /\ gw_pc' = "responded"
    /\ UNCHANGED <<gw_form, request_data_ob, scoreVars, searchVars, enrichVars, filterVars,
                   s3KeyVars, saveVars>>

\* no answer within timeout=360: requests.Timeout, for which the handler
\* raises HTTPException(504) inside its try block
ob_service_times_out ==
    /\ gw_pc = "posted"
    /\ ob_response' = [outcome |-> "Timeout", status |-> 0, results |-> <<>>]
    /\ gw_response' = internal_error("HTTPException 504")
    /\ gw_pc' = "responded"
    /\ UNCHANGED <<gw_form, request_data_ob, scoreVars, searchVars, enrichVars, filterVars,
                   s3KeyVars, saveVars>>

\* the OB service cannot be reached: requests.ConnectionError
ob_service_unreachable ==
    /\ gw_pc = "posted"
    /\ ob_response' = [outcome |-> "ConnectionError", status |-> 0, results |-> <<>>]
    /\ gw_response' = internal_error("ConnectionError")
    /\ gw_pc' = "responded"
    /\ UNCHANGED <<gw_form, request_data_ob, scoreVars, searchVars, enrichVars, filterVars,
                   s3KeyVars, saveVars>>

NextGateway ==
    \/ gateway_search
    \/ ob_service_replies
    \/ ob_service_times_out
    \/ ob_service_unreachable

SpecGateway == Init /\ [][NextGateway]_vars

----------------------------------------------------------------------------
(* image-similarity-service, app/utils/s3_handler.py: parse_s3_key         *)

\* key.split(sep): the pieces between the separators, empty pieces kept;
\* a text without separator gives the one-element list of the text
RECURSIVE str_split_on(_, _)
str_split_on(s, sep) ==
    IF \A i \in 1..Len(s) : s[i] # sep THEN <<s>>
    ELSE LET i == CHOOSE k \in 1..Len(s) :
                      s[k] = sep /\ \A j \in 1..(k - 1) : s[j] # sep
         IN  <<SubSeq(s, 1, i - 1)>> \o str_split_on(SubSeq(s, i + 1, Len(s)), sep)

\* variant: style_type is taken as soon as the key has two parts
parse_s3_key_two_parts(k) ==
    LET parts == str_split_on(k, "/")
    IN  [tenant_id |-> IF parts # <<>> THEN parts[1]
                       ELSE <<"u", "n", "k", "n", "o", "w", "n">>,
         style_type |-> IF Len(parts) > 1 THEN parts[2] ELSE <<>>,
         done |-> TRUE]

parse_s3_key(k) ==
    LET parts == str_split_on(k, "/")
    IN  [tenant_id |-> IF parts # <<>> THEN parts[1]
                       ELSE <<"u", "n", "k", "n", "o", "w", "n">>,
         style_type |-> IF Len(parts) > 2 THEN parts[2] ELSE <<>>,
         done |-> TRUE]

\* the characters of the keys: two letters and the separator
KeyAlphabet == {"t", "c", "/"}

InitS3Key ==
    /\ s3_pc = "input"
    /\ key \in SeqsUpTo(KeyAlphabet, MaxKeyLen)
    /\ parsed_key = NotParsed
    /\ ScoreIdle
    /\ SearchIdle
    /\ EnrichIdle
    /\ FilterIdle
    /\ GatewayIdle
    /\ SaveIdle

ParseS3Key ==
    /\ s3_pc = "input"
    /\ parsed_key' = parse_s3_key(key)
    /\ s3_pc' = "parsed"
    /\ UNCHANGED <<key, scoreVars, searchVars, enrichVars, filterVars,
                   gatewayVars, saveVars>>

NextS3Key == ParseS3Key

SpecS3Key == InitS3Key /\ [][NextS3Key]_vars

----------------------------------------------------------------------------
(* image-similarity-service, app/routes/image.py: POST /save-image         *)

\* the forms of the save requests: (tenant_id, style_number)
SaveForms == {[tenant_id |-> t, style_number |-> 7] : t \in {1, 2}}

\* upload_to_s3 returns the URL of the object it put
s3_url(object_name) == <<"https://", "BUCKET_NAME", ".s3.amazonaws.com/", object_name>>

\* s3_client.put_object: the bucket holds the key afterwards
put_object(objects, object_name) == objects \cup {object_name}

\* variant: delete_from_s3 returns without deleting
delete_from_s3_kept(objects, object_name, deleted) == objects

\* delete_from_s3: the key is gone when s3_client.delete_object succeeded;
\* when it raised, the bucket is as it was
delete_from_s3(objects, object_name, deleted) ==
    IF deleted THEN objects \ {object_name} ELSE objects

\* INSERT INTO fvector_pg (tenant_id, style_number, image_url, ...)
inserted_row(form, image_url) ==
    [tenant_id |-> form.tenant_id, style_number |-> form.style_number,
     image_url |-> image_url]

\* HTTPException(status_code=...)
SaveError(status) == [status |-> status, id |-> 0]

\* the calls inside the handler's second try block
CallsAfterUpload == {"get_feature_vector_pretrained", "init_table", "upsert_vector"}

\* a request arrives: the form is bound, the file is read, the key
\* tenant_id/uuid4.png is made and the image is put into the bucket.  A
\* failing read is answered 400, a failing upload 500.
save_upload ==
    /\ sv_pc \in {"idle", "responded"}
    /\ uuids < MaxSaves
    /\ \E form \in SaveForms, raised \in {"none", "image.read", "upload_to_s3"} :
          /\ form_data' = form
          /\ sv_raised' = raised
          /\ delete_calls' = <<>>
          /\ IF raised = "image.read"
             THEN /\ sv_pc' = "responded"
                  /\ sv_response' = SaveError(400)
                  /\ UNCHANGED <<file_name, uuids, s3_objects>>
             ELSE /\ file_name' = [tenant_id |-> form.tenant_id, uuid |-> uuids + 1]
                  /\ uuids' = uuids + 1
                  /\ IF raised = "upload_to_s3"
                     THEN /\ sv_pc' = "responded"
                          /\ sv_response' = SaveError(500)
                          /\ UNCHANGED s3_objects
                     ELSE /\ sv_pc' = "uploaded"
                          /\ sv_response' = NoSaveResponse
                          /\ s3_objects' =
                               put_object(s3_objects,
                                   [tenant_id |-> form.tenant_id, uuid |-> uuids + 1])
    /\ UNCHANGED <<fvector_pg, scoreVars, searchVars, enrichVars, filterVars,
                   gatewayVars, s3KeyVars>>

\* get_feature_vector_pretrained returns the embedding or raises
save_embed ==
    /\ sv_pc = "uploaded"
    /\ \E raised \in BOOLEAN :
          IF raised
          THEN /\ sv_pc' = "failed"
               /\ sv_raised' = "get_feature_vector_pretrained"
          ELSE /\ sv_pc' = "embedded"
               /\ UNCHANGED sv_raised
    /\ UNCHANGED <<form_data, file_name, s3_objects, fvector_pg, delete_calls,
                   sv_response, uuids, scoreVars, searchVars, enrichVars, filterVars,
                   gatewayVars, s3KeyVars>>

\* pg_connect.init_table, then pg_connect.upsert_vector: the row is
\* inserted and committed, or one of the two raises and no row is written;
\* after the insert the handler returns its message
save_upsert ==
    /\ sv_pc = "embedded"
    /\ \E raised \in {"none", "init_table", "upsert_vector"} :
          IF raised = "none"
          THEN /\ fvector_pg' = fvector_pg \cup {inserted_row(form_data, s3_url(file_name))}
               /\ sv_pc' = "responded"
               /\ sv_response' = [status |-> 200, id |-> form_data.tenant_id]
               /\ UNCHANGED sv_raised
          ELSE /\ sv_pc' = "failed"
               /\ sv_raised' = raised
               /\ UNCHANGED <<fvector_pg, sv_response>>
    /\ UNCHANGED <<form_data, file_name, s3_objects, delete_calls, uuids,
                   scoreVars, searchVars, enrichVars, filterVars, gatewayVars, s3KeyVars>>

\* the except clause: delete_from_s3(file_name) is called; what it raises
\* is passed over
save_delete ==
    /\ sv_pc = "failed"
    /\ \E deleted \in BOOLEAN :
          /\ s3_objects' = delete_from_s3(s3_objects, file_name, deleted)
          /\ delete_calls' =
                Append(delete_calls, [object_name |-> file_name, deleted |-> deleted])
    /\ sv_pc' = "cleaned"
    /\ UNCHANGED <<form_data, file_name, fvector_pg, sv_raised, sv_response, uuids,
                   scoreVars, searchVars, enrichVars, filterVars, gatewayVars, s3KeyVars>>

\* the except clause ends: raise HTTPException(status_code=500)
save_raise ==
    /\ sv_pc = "cleaned"
    /\ sv_response' = SaveError(500)
    /\ sv_pc' = "responded"
    /\ UNCHANGED <<form_data, file_name, s3_objects, fvector_pg, sv_raised,
                   delete_calls, uuids, scoreVars, searchVars, enrichVars, filterVars,
                   gatewayVars, s3KeyVars>>

NextSave == save_upload \/ save_embed \/ save_upsert \/ save_delete \/ save_raise

SpecSave == Init /\ [][NextSave]_vars

----------------------------------------------------------------------------
(* Properties of the scorer and the normalizers (SpecScore)                *)

Scored == sc_pc = "scored"

BothNonEmpty == operation_machine_list # <<>> /\ database_record_op_machine_list # <<>>

\* the pairwise values of query step i against reference step j
PairText(i, j) ==
    get_similarity_score(operation_machine_list[i][1],
                         database_record_op_machine_list[j][1])

PairMachine(i, j) ==
    IF preprocess_text(operation_machine_list[i][2])
         = preprocess_text(database_record_op_machine_list[j][2])
    THEN 100 * SCALE ELSE 0

RefIdx == 1..Len(database_record_op_machine_list)
QueryIdx == 1..Len(operation_machine_list)

\* v is the largest of the values
IsBest(v, vals) == v \in vals /\ \A x \in vals : x <= v

RECURSIVE SumOver(_, _)
SumOver(f, n) == IF n = 0 THEN 0 ELSE f[n] + SumOver(f, n - 1)

\* C1: for a non-empty query and a non-empty reference, the operation score
\* is the mean over the query steps of the largest text similarity against
\* any reference step, and the machine score is the mean over the query
\* steps of the largest machine match (100 when some reference step has the
\* same lower-cased, whitespace-normalized machine name, else 0); the two
\* maxima are taken independently of each other.
C1_BestMatchMeans ==
    (Scored /\ BothNonEmpty) =>
        LET bestText == [i \in QueryIdx |->
                CHOOSE v \in {PairText(i, j) : j \in RefIdx} :
                    \A j \in RefIdx : PairText(i, j) <= v]
            bestMachine == [i \in QueryIdx |->
                IF \E j \in RefIdx : PairMachine(i, j) = 100 * SCALE
                THEN 100 * SCALE ELSE 0]
        IN  /\ similarity_scores.exc = "none"
            /\ similarity_scores.operation_similarity_score * Len(operation_machine_list)
                  = SumOver(bestText, Len(operation_machine_list))
            /\ similarity_scores.machine_similarity_score * Len(operation_machine_list)
                  = SumOver(bestMachine, Len(operation_machine_list))

\* a scored one-step query whose machine is found only at reference steps
\* other than the ones that best match its operation name
C1_Witness ==
    /\ Scored /\ BothNonEmpty
    /\ Len(operation_machine_list) = 1
    /\ similarity_scores.machine_similarity_score = 100 * SCALE
    /\ \A j \in RefIdx :
          IsBest(PairText(1, j), {PairText(1, k) : k \in RefIdx}) => PairMachine(1, j) = 0

\* C5 (as claimed): scoring a non-empty sequence against itself gives
\* operation, machine and total score 100.
C5_SelfScoreIs100 ==
    (Scored /\ operation_machine_list # <<>>
            /\ operation_machine_list = database_record_op_machine_list) =>
        /\ similarity_scores.exc = "none"
        /\ FEq(similarity_scores.operation_similarity_score, 100 * SCALE)
        /\ FEq(similarity_scores.machine_similarity_score, 100 * SCALE)
        /\ FEq(similarity_scores.total_similarity_score, 100 * SCALE)

\* C6: for a non-empty query and a non-empty reference the three scores lie
\* between 0 and 100.
C6_ScoresInRange ==
    (Scored /\ BothNonEmpty) =>
        /\ FGe(similarity_scores.operation_similarity_score, 0)
        /\ FGe(100 * SCALE, similarity_scores.operation_similarity_score)
        /\ FGe(similarity_scores.machine_similarity_score, 0)
        /\ FGe(100 * SCALE, similarity_scores.machine_similarity_score)
        /\ FGe(similarity_scores.total_similarity_score, 0)
        /\ FGe(100 * SCALE, similarity_scores.total_similarity_score)

\* a two-step query scored strictly inside the range on both components
C6_Witness ==
    /\ Scored /\ BothNonEmpty
    /\ Len(operation_machine_list) = 2
    /\ FLt(0, similarity_scores.operation_similarity_score)
    /\ FLt(similarity_scores.operation_similarity_score, 100 * SCALE)
    /\ FLt(0, similarity_scores.machine_similarity_score)
    /\ FLt(similarity_scores.machine_similarity_score, 100 * SCALE)

\* C8 (as claimed): a non-empty query against a reference without
\* operations scores 0 and 0 and raises nothing.
C8_EmptyReferenceScoresZero ==
    (Scored /\ operation_machine_list # <<>>
            /\ database_record_op_machine_list = <<>>) =>
        /\ similarity_scores.exc = "none"
        /\ FEq(similarity_scores.operation_similarity_score, 0)
        /\ FEq(similarity_scores.machine_similarity_score, 0)

\* C9 (as claimed): an empty query against any reference scores 0 and 0.
C9_EmptyQueryScoresZero ==
    (Scored /\ operation_machine_list = <<>>) =>
        /\ similarity_scores.exc = "none"
        /\ FEq(similarity_scores.operation_similarity_score, 0)
        /\ FEq(similarity_scores.machine_similarity_score, 0)

\* out holds the (name, machine) pairs of the steps, taken in ascending
\* order of their sequence numbers, equal numbers in input order
IsStableNormalization(out, names, machines, seqs) ==
    LET n == Len(seqs)
        Before(a, b) == seqs[a] < seqs[b] \/ (seqs[a] = seqs[b] /\ a < b)
    IN  /\ Len(out) = n
        /\ \E perm \in [1..n -> 1..n] :
              /\ \A a, b \in 1..n : a # b => perm[a] # perm[b]
              /\ \A a, b \in 1..n : a < b => Before(perm[a], perm[b])
              /\ \A a \in 1..n : out[a] = <<names[perm[a]], machines[perm[a]]>>

\* C10: each normalizer returns the (operation_name, machine_name) pairs of
\* exactly its input steps, ordered by sequence number ascending, ties in
\* input order, as many pairs as steps; on the same steps the two
\* normalizers return the same list.
C10_NormalizeStableSort ==
    (sc_pc # "input") =>
        /\ IsStableNormalization(operation_machine_list,
               [i \in 1..Len(operation_data) |-> operation_data[i].operation_name],
               [i \in 1..Len(operation_data) |-> operation_data[i].machine_name],
               [i \in 1..Len(operation_data) |-> operation_data[i].sequence_number])
        /\ IsStableNormalization(database_record_op_machine_list,
               [i \in 1..Len(db_operation_data) |-> db_operation_data[i][1]],
               [i \in 1..Len(db_operation_data) |-> db_operation_data[i][2]],
               [i \in 1..Len(db_operation_data) |-> db_operation_data[i][3]])
        /\ (operation_data = AsOperationData(db_operation_data)
               => operation_machine_list = database_record_op_machine_list)

\* the same two steps given to both normalizers, out of order, and reordered
C10_Witness ==
    /\ sc_pc = "normalized"
    /\ operation_data = AsOperationData(db_operation_data)
    /\ Len(db_operation_data) = 2
    /\ db_operation_data[1][3] > db_operation_data[2][3]
    /\ database_record_op_machine_list[1] = <<db_operation_data[2][1], db_operation_data[2][2]>>

\* two steps with the same sequence number and different names, normalized
C10_TieWitness ==
    /\ sc_pc = "normalized"
    /\ Len(operation_data) = 2
    /\ operation_data[1].sequence_number = operation_data[2].sequence_number
    /\ operation_data[1].operation_name # operation_data[2].operation_name
    /\ operation_machine_list[1][1] = operation_data[1].operation_name

----------------------------------------------------------------------------
(* Properties of ranking and top-k selection (Spec)                        *)

\* a ranking call has returned its list to the handler
RankingReturned == pc = "responded" /\ request.handler # "none" /\ results.exc = "none"

Ranked == results.result

\* the total the ranking computes for a corpus record of the request
CorpusTotal(record) ==
    process_record(record, get_operation_machine_list(request.operation_data))
        .total_similarity_score

\* C2 (as claimed): for every query and corpus the list a ranking returns is
\* in descending order of total_similarity_score: of two neighbours, the
\* total of the earlier one is greater than or equal to that of the later.
C2_RankedDescending ==
    RankingReturned =>
        \A i \in 1..(Len(Ranked) - 1) :
            FGe(Ranked[i].total_similarity_score, Ranked[i + 1].total_similarity_score)

\* C3: the results a search handler returns are the no_of_results best of
\* the corpus, best first: they are in descending order of total, there are
\* min(no_of_results, corpus size) of them, and none has a smaller total
\* than a corpus record that was not returned.
C3_TopKAreTheBest ==
    (pc = "responded" /\ response.status = 200) =>
        LET returned == response.results
            returnedIds == {returned[i].layout_id : i \in 1..Len(returned)}
        IN  /\ Len(returned) = Min2(request.no_of_results, Len(database_records))
            /\ \A i \in 1..(Len(returned) - 1) :
                  FGe(returned[i].total_similarity_score,
                      returned[i + 1].total_similarity_score)
            /\ \A i \in 1..Len(returned) : \A c \in 1..Len(database_records) :
                  database_records[c].layout_id \notin returnedIds =>
                      FGe(returned[i].total_similarity_score,
                          CorpusTotal(database_records[c]))

\* three corpus records whose totals come lowest, highest, middle, two
\* results asked for: the second record is returned first, then the third
C3_Witness ==
    /\ pc = "responded" /\ response.status = 200
    /\ Len(database_records) = 3
    /\ request.no_of_results = 2
    /\ FLt(CorpusTotal(database_records[1]), CorpusTotal(database_records[3]))
    /\ FLt(CorpusTotal(database_records[3]), CorpusTotal(database_records[2]))
    /\ Len(response.results) = 2
    /\ response.results[1].layout_id = database_records[2].layout_id
    /\ response.results[2].layout_id = database_records[3].layout_id

\* C4: top-k selection returns the first min(no_of_results, len(results))
\* elements of the ranked list, in the same order; never more than
\* no_of_results and never more than the list holds.
C4_TopKIsPrefix ==
    RankingReturned =>
        /\ Len(top_results) = Min2(request.no_of_results, Len(Ranked))
        /\ Len(top_results) <= request.no_of_results
        /\ Len(top_results) <= Len(Ranked)
        /\ \A i \in 1..Len(top_results) : top_results[i] = Ranked[i]

\* a ranked list longer than no_of_results has been cut
C4_Witness ==
    /\ RankingReturned
    /\ Len(Ranked) > request.no_of_results
    /\ Len(top_results) = request.no_of_results
    /\ top_results[1] # Ranked[Len(Ranked)]

\* a ranked list shorter than no_of_results has been taken whole
C4_ShortWitness ==
    /\ RankingReturned
    /\ Len(Ranked) = 1
    /\ request.no_of_results = 2
    /\ top_results = Ranked

\* C7 (as claimed): in every result of a ranking, total_similarity_score
\* equals (operation_similarity_score + machine_similarity_score) / 2.
C7_TotalIsMean ==
    RankingReturned =>
        \A i \in 1..Len(Ranked) :
            FEq(Ranked[i].total_similarity_score,
                FHalf(FAdd(Ranked[i].operation_similarity_score,
                           Ranked[i].machine_similarity_score)))

\* every ranked list that holds a number is in descending order and its
\* totals are the means of their components (neither C2 nor C7 fails on it)
RankedNumbersAreSortedMeans ==
    (RankingReturned /\ request.operation_data # <<>>) =>
        /\ \A i \in 1..(Len(Ranked) - 1) :
              FGe(Ranked[i].total_similarity_score, Ranked[i + 1].total_similarity_score)
        /\ \A i \in 1..Len(Ranked) :
              FEq(Ranked[i].total_similarity_score,
                  FHalf(FAdd(Ranked[i].operation_similarity_score,
                             Ranked[i].machine_similarity_score)))

----------------------------------------------------------------------------
(* Properties of the allocation enrichers (SpecEnrich)                     *)

\* the enricher returned, it did not raise
Enriched(out) == out.exc = "none"

\* the rows of the allocation table that belong to a layout
GroupOf(layout_id) ==
    {a \in 1..Len(allocation) : allocation[a].layout_id = layout_id}

IsNull(row) == row.run_efficiency.kind = "null"

\* row x ranks at least as high as row y: by run_efficiency, a null below
\* every value
RanksAtLeast(x, y) ==
    \/ IsNull(y)
    \/ ~IsNull(x) /\ x.run_efficiency.v >= y.run_efficiency.v

AttachedIds(result) ==
    {result.allocation_data[a].allocation_id : a \in 1..Len(result.allocation_data)}

\* C11: in the output of every enricher (add_allocation_data,
\* add_allocation_data_v2, add_allocation_data_ds) every allocation record
\* in a result's allocation_data has the layout_id of that result.
C11_AllocationsOfOwnLayout ==
    \A out \in {by_db, by_db_v2, by_ds} :
        Enriched(out) =>
            \A i \in 1..Len(out.results) :
                \A a \in 1..Len(out.results[i].allocation_data) :
                    out.results[i].allocation_data[a].layout_id = out.results[i].layout_id

\* the three enrichers returned, each attached a record to some result, and
\* the table held rows of another layout than that result's
C11_Witness ==
    /\ \A out \in {by_db, by_db_v2, by_ds} :
          /\ Enriched(out)
          /\ \E i \in 1..Len(out.results) :
                /\ out.results[i].allocation_data # <<>>
                /\ \E a \in 1..Len(allocation) :
                      allocation[a].layout_id # out.results[i].layout_id
    /\ Len(ranked_top) >= 2

\* C12: for every result and every n > 0, add_allocation_data_v2 and
\* add_allocation_data_ds attach exactly min(n, size of the result's
\* allocation group) records.
C12_AttachesMinOfNAndGroup ==
    \A out \in {by_db_v2, by_ds} :
        Enriched(out) =>
            \A i \in 1..Len(out.results) :
                Len(out.results[i].allocation_data)
                    = Min2(n_allocations, Cardinality(GroupOf(out.results[i].layout_id)))

\* what of C12 the code keeps: add_allocation_data_ds attaches exactly
\* min(n, group size) records
DsAttachesMinOfNAndGroup ==
    Enriched(by_ds) =>
        \A i \in 1..Len(by_ds.results) :
            Len(by_ds.results[i].allocation_data)
                = Min2(n_allocations, Cardinality(GroupOf(by_ds.results[i].layout_id)))

\* allocation_data is in descending order of run_efficiency, nulls last,
\* and no row of the group left out ranks above a row that was kept
SortedNullsLastBestKept(result) ==
    /\ \A a, b \in 1..Len(result.allocation_data) :
          a < b => RanksAtLeast(result.allocation_data[a], result.allocation_data[b])
    /\ \A a \in 1..Len(result.allocation_data) :
          \A g \in GroupOf(result.layout_id) :
              allocation[g].allocation_id \notin AttachedIds(result)
                  => RanksAtLeast(result.allocation_data[a], allocation[g])

\* C13: the allocation_data attached by add_allocation_data and
\* add_allocation_data_ds is ordered by run_efficiency descending with null
\* run_efficiency after every numeric one, and the records kept after
\* truncation are the highest-efficiency ones of the result's group.
C13_SortedNullsLast ==
    \A out \in {by_db, by_ds} :
        Enriched(out) =>
            \A i \in 1..Len(out.results) : SortedNullsLastBestKept(out.results[i])

\* C14: on the same ranked results, the same allocation rows and the same
\* n, add_allocation_data_v2 and add_allocation_data_ds produce identical
\* output.
C14_SameOutput ==
    (by_db_v2 # NotEnriched /\ by_ds # NotEnriched) => by_db_v2 = by_ds

----------------------------------------------------------------------------
(* Properties of the handlers' failure paths and of the worker pool (Spec) *)

\* the handler has ranked, cut the ranked list and asked for allocation
\* data
EnrichmentAsked ==
    /\ pc = "responded"
    /\ request.allocation_data
    /\ \/ request.handler = "search-ds"
       \/ /\ request.handler = "search"
          /\ get_op_data(IntArg(request.tenant_id), request.style_type).exc = "none"
    /\ results.exc = "none"

\* the enricher of the request raised
EnrichmentRaised == add_allocation_data_of(request, top_results).exc # "none"

\* C15 (as claimed): if allocation enrichment fails, the search request
\* still returns the ranked top-k results, without allocation data, and
\* not an error response.
C15_EnrichmentFailureKeepsResults ==
    (EnrichmentAsked /\ EnrichmentRaised) =>
        /\ response.status = 200
        /\ Len(response.results) = Len(top_results)
        /\ \A i \in 1..Len(top_results) :
              response.results[i].layout_id = top_results[i].layout_id

\* scoring the i-th corpus record of the request raises
ScoringFails(i) ==
    process_record(database_records[i],
                   get_operation_machine_list(request.operation_data)).exc # "none"

\* the request went through a ranking pass (sequential or pool)
RankingPassed == pc = "responded" /\ request.handler = "search-ds"

\* C16 (as claimed): if scoring one corpus record fails, the ranking pass
\* does not abort: the record is skipped and the results of all other
\* corpus records are returned.
C16_FailedRecordIsSkipped ==
    (RankingPassed /\ \E i \in 1..Len(database_records) : ScoringFails(i)) =>
        /\ results.exc = "none"
        /\ {results.result[k].layout_id : k \in 1..Len(results.result)}
              = {database_records[i].layout_id :
                    i \in {j \in 1..Len(database_records) : ~ScoringFails(j)}}

\* get_ob_similarity_score_v2 has returned its list
PoolRanked ==
    /\ pc = "responded"
    /\ futures # <<>>
    /\ results.exc = "none"

\* the workers' results in submission order, sorted as the ranking sorts
SubmissionOrderRanked ==
    sort_by_total([k \in 1..Len(futures) |-> SimilarityResult(futures[k])])

\* C17: whatever the order in which the worker tasks complete, nothing is
\* returned before every task is collected, the returned list holds the
\* results of all tasks, each once, and it carries at every position the
\* total that any other completion order gives at that position (runs
\* differ only in the order of results of the same total).
C17_CompletionOrderOnlyMovesTies ==
    /\ pc = "pool" => (results = NoRanking /\ response = NoResponse)
    /\ PoolRanked =>
          /\ Len(Ranked) = Len(futures)
          /\ {Ranked[k] : k \in 1..Len(Ranked)}
                = {SimilarityResult(futures[k]) : k \in 1..Len(futures)}
          /\ \A k \in 1..Len(Ranked) :
                Ranked[k].total_similarity_score
                    = SubmissionOrderRanked[k].total_similarity_score

\* three tasks of different totals completed in an order that is neither
\* the submission order nor the ranked order
C17_Witness ==
    /\ PoolRanked
    /\ Len(futures) = 3
    /\ as_completed # <<1, 2, 3>>
    /\ \A i, j \in 1..3 :
          i # j => FLt(futures[i].total_similarity_score, futures[j].total_similarity_score)
                   \/ FLt(futures[j].total_similarity_score, futures[i].total_similarity_score)
    /\ Ranked # [k \in 1..3 |-> SimilarityResult(futures[as_completed[k]])]

\* C18 (as claimed): results of equal total are ordered by a deterministic
\* secondary key, so the ranked order for a query and a corpus is the same
\* for every worker completion order.
C18_RankedOrderIsDeterministic ==
    PoolRanked => Ranked = SubmissionOrderRanked

----------------------------------------------------------------------------
(* Properties of the filters and the grouping (SpecFilter)                 *)

\* the rows a filter is to keep, in input order
MatchesStyle(row) == row.style_type = fl_style_type

MatchesTenantAndStyle(row) ==
    /\ row.tenant_id \in fl_tenant_ids
    /\ (fl_style_type = None \/ row.style_type = fl_style_type)

\* the WHERE clause of get_op_data's query
MatchesQuery(row) ==
    /\ row.tenant_id \in fl_tenant_ids
    /\ (\/ fl_style_type \in {None, <<>>}
        \/ row.style_type = str_strip(fl_style_type))

RowsOfStyle == SelectSeq(ob_datasource_json, MatchesStyle)

RowsOfTenantAndStyle == SelectSeq(ob_datasource_json, MatchesTenantAndStyle)

RowsOfQuery == SelectSeq(DbRows, MatchesQuery)

OperationOf(row) == <<row.operation_name, row.machine_name, row.operation_seq>>

\* the operations of the rows of a layout, in row order
RECURSIVE OperationsOfLayout(_, _)
OperationsOfLayout(rows, layout_id) ==
    IF rows = <<>> THEN <<>>
    ELSE IF Head(rows).layout_id = layout_id
         THEN <<OperationOf(Head(rows))>> \o OperationsOfLayout(Tail(rows), layout_id)
         ELSE OperationsOfLayout(Tail(rows), layout_id)

\* groups is the grouping of rows by layout_id: one group per layout_id of
\* the rows, each holding the operations of exactly its rows, in row order
IsGrouping(groups, rows) ==
    /\ \A g, h \in 1..Len(groups) : g # h => groups[g].layout_id # groups[h].layout_id
    /\ {groups[g].layout_id : g \in 1..Len(groups)}
          = {rows[r].layout_id : r \in 1..Len(rows)}
    /\ \A g \in 1..Len(groups) :
          groups[g].operation_data = OperationsOfLayout(rows, groups[g].layout_id)

\* C19: grouping the rows that pass the filter by layout_id (in
\* filter_by_style_type, filter_by_tenant_and_style and get_op_data) gives
\* one group per distinct layout_id, each group holds exactly the rows of
\* its layout_id in input order, and no row is dropped or duplicated.
C19_EveryRowInExactlyOneGroup ==
    /\ by_style.exc = "none" => IsGrouping(by_style.data_records, RowsOfStyle)
    /\ by_tenant_and_style.exc = "none"
          => IsGrouping(by_tenant_and_style.data_records, RowsOfTenantAndStyle)
    /\ op_data.exc = "none" => IsGrouping(op_data.data_records, RowsOfQuery)

\* three rows passed the style filter, the first and the third of one
\* layout and the second of another, and the database gave two layouts
C19_Witness ==
    /\ by_style.exc = "none"
    /\ Len(RowsOfStyle) = 3
    /\ RowsOfStyle[1].layout_id = RowsOfStyle[3].layout_id
    /\ RowsOfStyle[1].layout_id # RowsOfStyle[2].layout_id
    /\ Len(by_style.data_records) = 2
    /\ by_tenant_and_style.exc = "none"
    /\ op_data.exc = "none"
    /\ Len(op_data.data_records) >= 2

\* the operations a grouped output holds, each with its layout_id
OperationsIn(groups) ==
    UNION {{<<groups[g].layout_id, groups[g].operation_data[k]>> :
                k \in 1..Len(groups[g].operation_data)} : g \in 1..Len(groups)}

OperationsOfRows(rows) == {<<rows[r].layout_id, OperationOf(rows[r])>> : r \in 1..Len(rows)}

\* C20: the output of filter_by_style_type holds a row's operation iff the
\* row's style_type equals the requested one; the output of
\* filter_by_tenant_and_style holds it iff the row's tenant_id is in
\* tenant_ids and style_type is None or equals the row's.
C20_FiltersKeepMatchingRows ==
    /\ by_style.exc = "none" =>
          \A r \in 1..Len(ob_datasource_json) :
              <<ob_datasource_json[r].layout_id, OperationOf(ob_datasource_json[r])>>
                    \in OperationsIn(by_style.data_records)
                  <=> MatchesStyle(ob_datasource_json[r])
    /\ by_tenant_and_style.exc = "none" =>
          \A r \in 1..Len(ob_datasource_json) :
              <<ob_datasource_json[r].layout_id, OperationOf(ob_datasource_json[r])>>
                    \in OperationsIn(by_tenant_and_style.data_records)
                  <=> MatchesTenantAndStyle(ob_datasource_json[r])
    /\ by_style.exc = "none" =>
          OperationsIn(by_style.data_records) \subseteq OperationsOfRows(ob_datasource_json)
    /\ by_tenant_and_style.exc = "none" =>
          OperationsIn(by_tenant_and_style.data_records)
              \subseteq OperationsOfRows(ob_datasource_json)

\* both filters ran on rows of which one was kept, one was dropped for its
\* style and one was dropped for its tenant
C20_Witness ==
    /\ by_style.exc = "none"
    /\ by_tenant_and_style.exc = "none"
    /\ fl_style_type # None
    /\ \E r \in 1..Len(ob_datasource_json) : MatchesTenantAndStyle(ob_datasource_json[r])
    /\ \E r \in 1..Len(ob_datasource_json) : ~MatchesStyle(ob_datasource_json[r])
    /\ \E r \in 1..Len(ob_datasource_json) :
          /\ MatchesStyle(ob_datasource_json[r])
          /\ ob_datasource_json[r].tenant_id \notin fl_tenant_ids
    /\ by_style.data_records # by_tenant_and_style.data_records

----------------------------------------------------------------------------
(* Properties of the result list and of the response counts (Spec)         *)

\* xs holds, for every record of records, exactly one result with the
\* record's layout_id and layout_code, and nothing else
OnePerRecord(xs, records) ==
    /\ Len(xs) = Len(records)
    /\ \E p \in [1..Len(xs) -> 1..Len(xs)] :
          /\ \A i, j \in 1..Len(xs) : i # j => p[i] # p[j]
          /\ \A i \in 1..Len(xs) :
                /\ xs[i].layout_id = records[p[i]].layout_id
                /\ xs[i].layout_code = records[p[i]].layout_code

\* C21: the list a ranking returns holds exactly one result per corpus
\* record, with that record's layout_id and layout_code, none dropped or
\* duplicated; an empty corpus gives an empty list; the response's total_obs
\* is the corpus size and its no_of_results is min(no_of_results requested,
\* corpus size).
C21_OneResultPerRecord ==
    RankingReturned =>
        /\ OnePerRecord(Ranked, database_records)
        /\ database_records = <<>> => Ranked = <<>>
        /\ response.status = 200 =>
              /\ response.total_obs = Len(database_records)
              /\ response.no_of_results
                    = Min2(request.no_of_results, Len(database_records))

\* a corpus of three records ranked in another order than the corpus has,
\* two results asked for and sent
C21_Witness ==
    /\ RankingReturned
    /\ Len(database_records) = 3
    /\ Len(Ranked) = 3
    /\ Ranked[1].layout_id # database_records[1].layout_id
    /\ request.no_of_results = 2
    /\ response.status = 200
    /\ response.total_obs = 3
    /\ response.no_of_results = 2

----------------------------------------------------------------------------
(* Properties of request validation (Spec)                                 *)

\* the request has been taken up by a handler of the service
Handled == pc \in {"pool", "responded"} /\ request.handler # "none"

\* no record has been handed to the scorer for the request
NothingScored == pc = "responded" /\ futures = <<>> /\ results.result = <<>>

\* C22 (as claimed): a search request whose query operation list is empty,
\* or whose no_of_results or no_of_allocations is not positive, is rejected
\* before any scoring begins and answered with a client error (4xx).
C22_InvalidRequestIsClientError ==
    (Handled /\ (\/ request.operation_data = <<>>
                 \/ request.no_of_results <= 0
                 \/ request.no_of_allocations <= 0)) =>
        /\ NothingScored
        /\ response.status \in 400..499

\* the part of C22 the request models keep: a count that is not positive
\* is answered 422 and nothing is scored
NonPositiveCountIsRejected ==
    (Handled /\ (request.no_of_results <= 0 \/ request.no_of_allocations <= 0)) =>
        /\ NothingScored
        /\ response.status = 422

----------------------------------------------------------------------------
(* Properties of the handlers on an empty corpus (Spec)                    *)

\* the rows the database holds for the request's tenant and style type
RequestedDbRows ==
    LET wanted(row) ==
            /\ row.tenant_id = request.tenant_id
            /\ row.style_type = str_strip(request.style_type)
    IN  SelectSeq(DbRows, wanted)

\* a valid request has been answered and no corpus record is left for its
\* tenant and style type
NoCorpusRecord ==
    /\ pc = "responded"
    /\ ~RequestValidationError(request)
    /\ \/ request.handler = "search" /\ RequestedDbRows = <<>>
       \/ /\ request.handler = "search-ds"
          /\ filter_by_style_type(request.style_type, request.ob_datasource) = <<>>

\* C23 (as claimed): when no corpus record remains for the requested tenant
\* and style type, the handlers answer with a "no data" outcome, a 404 or
\* an empty result list, and never with a 500.
C23_NoDataIsNotServerError ==
    NoCorpusRecord =>
        /\ response.status \in {200, 404}
        /\ response.results = <<>>

\* the part of C23 that /search-ds keeps: an empty corpus is answered 200
\* with an empty list and total_obs 0
DsNoDataIsEmptyList ==
    (NoCorpusRecord /\ request.handler = "search-ds") =>
        /\ response.status = 200
        /\ response.results = <<>>
        /\ response.total_obs = 0

----------------------------------------------------------------------------
(* Properties of the gateway (SpecGateway)                                 *)

\* the gateway's call to the OB similarity service timed out
ObCallTimedOut == gw_pc = "responded" /\ ob_response.outcome = "Timeout"

\* C24 (as claimed): when the gateway's call to the OB similarity service
\* times out, the gateway answers 504 and sends no result list.
C24_TimeoutIs504 ==
    ObCallTimedOut =>
        /\ gw_response.status = 504
        /\ gw_response.operation_results = <<>>

\* what the handler does on a timeout: the whole request fails with a 500
\* that wraps the 504, and no result list is sent
TimeoutFailsRequest ==
    ObCallTimedOut =>
        /\ gw_response.status = 500
        /\ gw_response.detail = "HTTPException 504"
        /\ gw_response.operation_results = <<>>

\* the gateway answers 200 or 500, nothing else
GatewayAnswers200Or500 ==
    gw_pc = "responded" => gw_response.status \in {200, 500}

----------------------------------------------------------------------------
(* Properties of the attached allocation records (SpecEnrich)              *)

\* every record attached by the enricher carries a float or a null
AttachesFloatOrNull(out) ==
    Enriched(out) =>
        \A i \in 1..Len(out.results) :
            \A a \in 1..Len(out.results[i].allocation_data) :
                out.results[i].allocation_data[a].run_efficiency.kind
                    \in {"float", "null"}

\* C25 (as claimed): for every n > 0 and every allocation group size, every
\* allocation record the enrichers attach to a result has a run_efficiency
\* that is a float or null, never an unconverted Decimal.
C25_RunEfficiencyIsFloatOrNull ==
    \A out \in {by_db, by_db_v2, by_ds} : AttachesFloatOrNull(out)

\* the part of C25 that add_allocation_data_v2 and add_allocation_data_ds
\* keep: they convert every record they attach
V2AndDsAttachFloatOrNull ==
    AttachesFloatOrNull(by_db_v2) /\ AttachesFloatOrNull(by_ds)

----------------------------------------------------------------------------
(* Properties of parse_s3_key (SpecS3Key)                                  *)

\* the positions of the separator in the key
Slashes == {i \in 1..Len(key) : key[i] = "/"}

\* the n-th '/'-separated segment of the key, for n at most the number of
\* segments: the text between the (n-1)-th and the n-th separator
Segment(n) ==
    LET before(i) == Cardinality({j \in Slashes : j < i})
        from == IF n = 1 THEN 1
                ELSE 1 + CHOOSE i \in Slashes : before(i) = n - 2
        to == IF n = Cardinality(Slashes) + 1 THEN Len(key)
              ELSE (CHOOSE i \in Slashes : before(i) = n - 1) - 1
    IN  SubSeq(key, from, to)

\* C26: for every S3 key, parse_s3_key returns as tenant_id the first
\* '/'-separated segment, and as style_type the second segment when the key
\* has at least three segments, else the empty string.
C26_ParseS3Key ==
    s3_pc = "parsed" =>
        /\ parsed_key.tenant_id = Segment(1)
        /\ parsed_key.style_type
              = IF Cardinality(Slashes) + 1 >= 3 THEN Segment(2) ELSE <<>>

\* a key of three segments (as 'tenant123/casual/image.jpg') has been parsed
C26_Witness ==
    /\ s3_pc = "parsed"
    /\ key = <<"t", "/", "c", "/", "t">>
    /\ parsed_key.tenant_id = <<"t">>
    /\ parsed_key.style_type = <<"c">>

\* a key of two segments (as 'tenant123/image.jpg') gives an empty
\* style_type
TwoSegmentKeyHasNoStyle ==
    (s3_pc = "parsed" /\ key = <<"t", "/", "c">>) =>
        parsed_key = [tenant_id |-> <<"t">>, style_type |-> <<>>, done |-> TRUE]

----------------------------------------------------------------------------
(* Reordering the inputs of the scorer (SpecReorder)                       *)

\* the orders in which n elements can be put
Reorderings(n) ==
    {p \in [1..n -> 1..n] : \A i, j \in 1..n : p[i] = p[j] => i = j}

\* the exact values compare_ob_v2 returns for the query put in order p and
\* the reference put in order r are the ones it returned
SameScores(p, r) ==
    compare_ob_v2(reordered(operation_machine_list, p),
                  reordered(database_record_op_machine_list, r)) = similarity_scores

\* the roundings of the float64 it returns for them are the ones of the
\* float64 it returned
SameRounding(p, r) ==
    compare_ob_v2_rounding(reordered(operation_machine_list, p),
                           reordered(database_record_op_machine_list, r))
        = similarity_rounding

\* the float64 it returns for them are, bit for bit, the ones it returned
SameFloat64(p, r) == SameScores(p, r) /\ SameRounding(p, r)

\* C27 (as stated): the scores compare_ob_v2 returns are unchanged under any
\* reordering of the reference sequence and of the query sequence.
C27_ScoresUnchangedUnderReordering ==
    Scored =>
        \A p \in Reorderings(Len(operation_machine_list)) :
            \A r \in Reorderings(Len(database_record_op_machine_list)) :
                SameFloat64(p, r)

\* C27 (amended): the three float64 scores are unchanged under any
\* reordering of the reference sequence; under a reordering of the query
\* sequence their exact values (the means of the same per-step maxima) are
\* unchanged, and so are the float64 themselves for a query of at most two
\* steps; with three or more steps the float64 sum of the maxima depends on
\* the order in which they are added.
C27_ReorderingKeepsScoresUpToRounding ==
    Scored =>
        \A p \in Reorderings(Len(operation_machine_list)) :
            \A r \in Reorderings(Len(database_record_op_machine_list)) :
                /\ SameScores(p, r)
                /\ (Len(operation_machine_list) <= 2 \/ \A i \in DOMAIN p : p[i] = i) =>
                      SameRounding(p, r)

\* C27 witness: a query of three steps was scored against a reference of two
\* steps, the per-step maxima differ, and some order of the query gives
\* another float64
C27_Witness ==
    /\ Scored
    /\ similarity_scores.exc = "none"
    /\ Len(operation_machine_list) = 3
    /\ Len(database_record_op_machine_list) = 2
    /\ database_record_op_machine_list[1] # database_record_op_machine_list[2]
    /\ \E p \in Reorderings(3) :
          /\ SameScores(p, <<1, 2>>)
          /\ ~SameFloat64(p, <<1, 2>>)

----------------------------------------------------------------------------
(* The two ranking paths (Spec)                                            *)

\* neighbours in descending order of total_similarity_score
Descending(xs) ==
    \A i \in 1..(Len(xs) - 1) :
        FGe(xs[i].total_similarity_score, xs[i + 1].total_similarity_score)

\* the same results, each as often, in some order
SameMultiset(xs, ys) ==
    /\ Len(xs) = Len(ys)
    /\ \E p \in Reorderings(Len(xs)) : ys = reordered(xs, p)

\* what get_ob_similarity_score_v2 returns for the request when its tasks
\* complete in the given order
PoolRanking(order) ==
    collect_futures(submit_futures(request.operation_data, database_records), order)

\* the two rankings hold the same results
PathsHoldSameResults(sequential, pool) ==
    /\ (sequential.exc = "none") = (pool.exc = "none")
    /\ sequential.exc = "none" => SameMultiset(sequential.result, pool.result)

\* the two rankings hold the same results and both are in descending order
PathsAgree(sequential, pool) ==
    /\ PathsHoldSameResults(sequential, pool)
    /\ sequential.exc = "none" =>
          /\ Descending(sequential.result)
          /\ Descending(pool.result)

\* the handler of /search-ds called one of the two rankings
RankingRan == RankingPassed /\ results.exc # "RequestValidationError"

\* the ranking the handler got is the one of its path
RankedByOnePath ==
    \/ results = get_ob_similarity_score(request.operation_data, database_records)
    \/ results = PoolRanking(as_completed)

\* C28 (as claimed): for the same query and corpus the sequential ranking
\* and the pool ranking return the same multiset of results, both in
\* descending order of total_similarity_score, whatever the order in which
\* the pool's tasks complete.
C28_PathsReturnSameSortedResults ==
    RankingRan =>
        /\ RankedByOnePath
        /\ \A order \in Reorderings(Len(database_records)) :
              PathsAgree(get_ob_similarity_score(request.operation_data, database_records),
                         PoolRanking(order))

\* what holds of the two paths: they raise together, they return the same
\* multiset of results, and for a non-empty query both lists are in
\* descending order
PathsReturnSameResults ==
    RankingRan =>
        /\ RankedByOnePath
        /\ \A order \in Reorderings(Len(database_records)) :
              /\ PathsHoldSameResults(
                    get_ob_similarity_score(request.operation_data, database_records),
                    PoolRanking(order))
              /\ request.operation_data # <<>> =>
                    PathsAgree(
                        get_ob_similarity_score(request.operation_data, database_records),
                        PoolRanking(order))

----------------------------------------------------------------------------
(* The frame of the enrichers (SpecEnrich)                                 *)

\* out holds the results of before, in their order, each with the fields it
\* had and one more, allocation_data
OnlyAddsAllocationData(before, out) ==
    /\ Len(out) = Len(before)
    /\ \A i \in 1..Len(before) :
          /\ DOMAIN out[i] = DOMAIN before[i] \cup {"allocation_data"}
          /\ \A field \in DOMAIN before[i] : out[i][field] = before[i][field]

\* C29: an enricher that returns (add_allocation_data_ds,
\* add_allocation_data_v2, add_allocation_data) returns the ranked results
\* it was given, as many and in the same order, each with its layout_id,
\* layout_code and three scores unchanged and with allocation_data added.
C29_EnrichmentOnlyAddsAllocationData ==
    \A out \in {by_db, by_db_v2, by_ds} :
        Enriched(out) => OnlyAddsAllocationData(ranked_top, out.results)

\* the three enrichers returned for two results that are not in layout
\* order, one got allocations attached and one got none
C29_Witness ==
    /\ Len(ranked_top) = 2
    /\ ranked_top[1].layout_id > ranked_top[2].layout_id
    /\ \A out \in {by_db, by_db_v2, by_ds} :
          /\ Enriched(out)
          /\ \E i, j \in 1..2 :
                /\ out.results[i].allocation_data # <<>>
                /\ out.results[j].allocation_data = <<>>

----------------------------------------------------------------------------
(* Properties of save-image (SpecSave)                                     *)

\* the save failed after its image was uploaded
FailedAfterUpload == sv_raised \in CallsAfterUpload

\* delete_from_s3 was called for the key of this save
DeleteAttempted ==
    \E c \in 1..Len(delete_calls) : delete_calls[c].object_name = file_name

\* delete_from_s3 was called for the key of this save and did not raise
DeleteSucceeded ==
    \E c \in 1..Len(delete_calls) :
        delete_calls[c].object_name = file_name /\ delete_calls[c].deleted

\* the vector table holds a row of the object
HasVectorRow(object_name) ==
    \E row \in fvector_pg : row.image_url = s3_url(object_name)

\* C30: when the embedding or the insert fails after the upload, nothing is
\* answered before delete_from_s3 was called for the uploaded key, and the
\* answer is then 500; if that delete succeeded the bucket does not hold the
\* key, so the failed save leaves no image without a vector row; a 200 is
\* answered only when the bucket holds the image and the table its row.
C30_FailedSaveDeletesUpload ==
    /\ (FailedAfterUpload /\ sv_pc = "failed") =>
          (sv_response = NoSaveResponse /\ file_name \in s3_objects)
    /\ (FailedAfterUpload /\ sv_pc \in {"cleaned", "responded"}) => DeleteAttempted
    /\ (FailedAfterUpload /\ sv_pc = "responded") => sv_response = SaveError(500)
    /\ (FailedAfterUpload /\ sv_pc \in {"cleaned", "responded"} /\ DeleteSucceeded) =>
          /\ file_name \notin s3_objects
          /\ ~HasVectorRow(file_name)
    /\ sv_response.status = 200 =>
          /\ sv_pc = "responded"
          /\ sv_raised = "none"
          /\ file_name \in s3_objects
          /\ HasVectorRow(file_name)
          /\ delete_calls = <<>>

\* the second save failed at the insert, its image was deleted, the 500 was
\* sent, and the image and the row of the first save are still there
C30_Witness ==
    /\ sv_pc = "responded"
    /\ sv_raised = "upsert_vector"
    /\ DeleteSucceeded
    /\ sv_response = SaveError(500)
    /\ uuids = 2
    /\ s3_objects # {}
    /\ \A object_name \in s3_objects : HasVectorRow(object_name)

====
